---- MODULE Spec2Model ----
(***************************************************************************)
(* Model of the reminder timers of NotifyMe (notifyme_app/timers.py):     *)
(* ReminderTimer objects, their polling threads (_timer_worker) and the   *)
(* TimerManager that the tray menu drives.                                *)
(*                                                                         *)
(* Around them, the part of the application object (notifyme_app/app.py, *)
(* config.py, notifications.py) that a firing timer reaches: the          *)
(* normalised configuration, the reminder callbacks and the test          *)
(* notifications; the ConfigManager with its file (load, normalise,       *)
(* setters, save); and the TTSManager queues and workers (tts.py).        *)
(*                                                                         *)
(* The tray-menu thread runs one handler at a time, so every public       *)
(* method is one action.  A polling thread is split at the points where   *)
(* it reads or writes a field another thread writes, because the menu     *)
(* thread (and a second polling thread of the same timer) can run between *)
(* any two of them.                                                       *)
(***************************************************************************)
EXTENDS Integers, FiniteSets, Sequences, TLC

\* ------------------------------------------------------------------ bounds
\* Latest clock reading explored (seconds).
MaxTime == 180
\* Seconds the wall clock advances between two observations; at least
\* SleepSeconds, so every sleep that began before an advance has ended.
TickSeconds == 60
\* Polling threads that may be alive at once for one timer.
MaxThreads == 2
\* Calls of public methods (menu clicks) explored in one run.
MaxCalls == 3
\* TTSManager instances created in one run.
MaxManagers == 2
\* Speech requests made in one run.
MaxRequests == 3

\* --------------------------------------------------------------- constants
\* next_reminder_time = None: nothing scheduled yet.
NoTime == -1
\* get_idle_seconds() = None: the idle probe is unavailable.
IdleUnavailable == -1
\* No reading taken in this iteration (local not bound).
Unread == -2
\* time.sleep(1)
SleepSeconds == 1

\* Reminder types modelled (two of ALL_REMINDER_TYPES; timers are keyed
\* by type and every manager loop treats all keys alike).
Types == {"blink", "walking"}

\* DEFAULT_OFFSETS_SECONDS
DEFAULT_OFFSETS_SECONDS == [t \in Types |-> IF t = "blink" THEN 30 ELSE 50]

\* interval_minutes values a timer is created with or updated to.
IntervalChoices == {1, 2}
\* minutes arguments of snooze()/snooze_all(); the menu passes 5.
SnoozeChoices == {1, 5}
\* What the two system calls of get_idle_seconds() can do: raise, report
\* failure (GetLastInputInfo returns 0), or succeed with a tick count that
\* is idle_ms after the last input (negative when the 32-bit dwTime is
\* ahead of the tick count).
ProbeOutcomes ==
    {[result |-> r, idle_ms |-> 0] : r \in {"raises", "fails"}}
        \cup {[result |-> "ok", idle_ms |-> ms] : ms \in {-1000, 0, 60000, 120000}}

\* The outcomes for which the probe has no idle time to report.
ProbeUnavailable(o) == o.result # "ok" \/ o.idle_ms < 0

\* get_idle_seconds reporting a failed probe as two minutes of idleness.
get_idle_seconds_failure_as_idle(o) ==
    IF o.result = "ok" /\ o.idle_ms >= 0 THEN o.idle_ms \div 1000 ELSE 120

\* get_idle_seconds: None when a call raises or fails or idle_ms < 0, else
\* idle_ms / 1000.0 (the outcomes explored are whole seconds).
get_idle_seconds(o) ==
    IF o.result = "raises" THEN IdleUnavailable
    ELSE IF o.result = "fails" THEN IdleUnavailable
    ELSE IF o.idle_ms < 0 THEN IdleUnavailable
    ELSE o.idle_ms \div 1000

\* Readings of get_idle_seconds(): unavailable, active, idle 60 s, idle 120 s.
IdleReadings == {get_idle_seconds(o) : o \in ProbeOutcomes}

ThreadIds == 1..MaxThreads

VARIABLES
    clock,              \* time.time()
    is_global_paused,   \* TimerManager.is_global_paused
    timers,             \* TimerManager.timers: type -> ReminderTimer fields
    threads,            \* polling threads of each timer: position and locals
    last_call,          \* per type: the latest self.callback() invocation
    snoozed,            \* per type: a snooze took effect since that invocation
    snooze_until,       \* per type: the time that snooze asked for (NoTime if none)
    ncalls,             \* public-method calls made so far
    config,             \* ConfigManager._config after normalisation
    disk,               \* what is at ConfigManager.config_file
    startup,            \* what _load_config found there, and whether it raised
    last_save,          \* how the latest save_config ended ("none" before any)
    tts,                \* the TTSManager instances: queue, stop event, worker
    spoken,             \* the requests whose speech has started, in order
    last_shown_at,      \* NotifyMeApp.last_<type>_shown_at
    dispatched          \* per type: what the latest dispatch asked for

\* The state of the application object around the TimerManager.
appvars ==
    <<config, disk, startup, last_save, tts, spoken, last_shown_at, dispatched>>

vars == <<clock, is_global_paused, timers, threads, last_call, snoozed, snooze_until, ncalls,
          config, disk, startup, last_save, tts, spoken, last_shown_at,
          dispatched>>

\* The types a timer was registered for (the keys of TimerManager.timers).
Registered == DOMAIN timers

\* ------------------------------------------------------------ ConfigManager
\* The reminder types of the configuration (the keys of DEFAULT_INTERVALS_MIN).
ReminderTypes == {"blink", "walking", "water", "pranayama"}

\* DEFAULT_INTERVALS_MIN
DEFAULT_INTERVALS_MIN ==
    [t \in ReminderTypes |->
        CASE t = "blink"     -> 20
          [] t = "walking"   -> 60
          [] t = "water"     -> 30
          [] t = "pranayama" -> 120]

\* The keys of one reminder's record (ConfigKeys used per reminder).
ReminderKeys == {"interval_minutes", "sound_enabled", "tts_enabled", "hidden"}

\* The keys of a reminder's record that set_sound_enabled, set_tts_enabled
\* and set_hidden write.
FlagKeys == {"sound_enabled", "tts_enabled", "hidden"}

\* The keys a reminder's record may have in a file: the known ones and one
\* the program does not know.
FileKeys == ReminderKeys \cup {"extra"}

\* A key of the JSON file: absent ({}) or present with one value ({v}).
Opt(S) == {{}} \cup {{v} : v \in S}

\* `defaults | current` for one key: the file's value when the key is there.
Merged(default, opt) == IF opt = {} THEN default ELSE CHOOSE v \in opt : TRUE

\* The dict read from a JSON object: its present keys with their values.
Present(rec) ==
    [k \in {key \in DOMAIN rec : rec[key] # {}} |-> CHOOSE v \in rec[k] : TRUE]

\* default_global_config with the sound on.
default_global_config_sound_on == [sound_enabled |-> TRUE, tts_enabled |-> TRUE]

\* _get_default_global_config (sound off, TTS on)
default_global_config == [sound_enabled |-> FALSE, tts_enabled |-> TRUE]

\* _get_default_reminder_config
default_reminder_config(t) ==
    [interval_minutes |-> DEFAULT_INTERVALS_MIN[t],
     sound_enabled    |-> TRUE,
     tts_enabled      |-> TRUE,
     hidden           |-> FALSE]

\* _get_default_config
default_config ==
    [sound_enabled |-> default_global_config.sound_enabled,
     tts_enabled   |-> default_global_config.tts_enabled,
     reminders     |-> [t \in ReminderTypes |-> default_reminder_config(t)]]

\* normalize_config keeping only what a sectioned file holds, with no defaults.
normalize_config_without_defaults(file) ==
    [sound_enabled |-> Merged(default_global_config.sound_enabled,
                              file.sound_enabled),
     tts_enabled   |-> Merged(default_global_config.tts_enabled,
                              file.tts_enabled),
     reminders     |-> [t \in ReminderTypes |->
        IF file.format = "sectioned"
        THEN Present(file.reminders[t])
        ELSE [k \in ReminderKeys |->
                Merged(default_reminder_config(t)[k], file.reminders[t][k])]]]

\* _normalize_config: every known key the file lacks gets its default and
\* every key it has keeps the file's value as it is.  In a sectioned file
\* (lines 91-93) a reminder's record is `reminder_defaults | reminder_current`,
\* which keeps keys the program does not know; from a legacy flat file
\* (lines 94-119) only the four known keys are read.
normalize_config(file) ==
    [sound_enabled |-> Merged(default_global_config.sound_enabled,
                              file.sound_enabled),
     tts_enabled   |-> Merged(default_global_config.tts_enabled,
                              file.tts_enabled),
     reminders     |-> [t \in ReminderTypes |->
        IF file.format = "sectioned"
        THEN Present(file.reminders[t]) @@ default_reminder_config(t)
        ELSE [k \in ReminderKeys |->
                Merged(default_reminder_config(t)[k], file.reminders[t][k])]]]

\* document writing only the interval of each reminder.
document_of_intervals(cfg) ==
    [format        |-> "sectioned",
     sound_enabled |-> {cfg.sound_enabled},
     tts_enabled   |-> {cfg.tts_enabled},
     interval_minutes |-> {},
     reminders     |-> [t \in ReminderTypes |-> [k \in FileKeys |->
        IF k = "interval_minutes" THEN {cfg.reminders[t][k]} ELSE {}]]]

\* The document json.dump writes for a configuration: sectioned, holding
\* every key the configuration holds (and no top-level interval_minutes).
document(cfg) ==
    [format        |-> "sectioned",
     sound_enabled |-> {cfg.sound_enabled},
     tts_enabled   |-> {cfg.tts_enabled},
     interval_minutes |-> {},
     reminders     |-> [t \in ReminderTypes |-> [k \in FileKeys |->
        IF k \in DOMAIN cfg.reminders[t] THEN {cfg.reminders[t][k]} ELSE {}]]]

\* A file with no keys at all (the JSON object {}); _normalize_config reads an
\* object without a "global" or "reminders" key as a legacy flat file.  In a
\* flat file reminders[t][k] is the key "<t>_<k>" and interval_minutes is the
\* top-level key of that name, which _normalize_config never reads.
EmptyFile ==
    [format |-> "flat", sound_enabled |-> {}, tts_enabled |-> {},
     interval_minutes |-> {},
     reminders |-> [t \in ReminderTypes |-> [k \in FileKeys |-> {}]]]

\* The flat file the single-file NotifyMeApp writes (notifyme.py: the keys of
\* get_default_config, rewritten by set_interval and set_<type>_interval):
\* the blink interval under "interval_minutes", the others under
\* "<type>_interval_minutes", and the global sound flag.
legacy_document(intervals, sound) ==
    [EmptyFile EXCEPT
        !.sound_enabled = {sound},
        !.interval_minutes = {intervals["blink"]},
        !.reminders = [t \in ReminderTypes |-> [k \in FileKeys |->
            IF k = "interval_minutes" /\ t # "blink"
            THEN {intervals[t]} ELSE {}]]]

\* The interval the single-file NotifyMeApp stored for type t in a flat file:
\* config["interval_minutes"] for blink, config["<t>_interval_minutes"] else.
legacy_interval(file, t) ==
    IF t = "blink" THEN file.interval_minutes
                   ELSE file.reminders[t].interval_minutes

\* What ConfigManager finds at config_file: no file, a file open() cannot
\* read, a file json.load rejects (an empty file among them), JSON that is
\* not an object, an object whose section or reminder record is not an
\* object, or a document.
NoFile == [kind |-> "missing", doc |-> EmptyFile]
Unreadable == [kind |-> "unreadable", doc |-> EmptyFile]
NotJson == [kind |-> "not_json", doc |-> EmptyFile]
NotObject == [kind |-> "not_object", doc |-> EmptyFile]
BadSection == [kind |-> "bad_section", doc |-> EmptyFile]
OnDisk(file) == [kind |-> "doc", doc |-> file]

\* Whether reading the file raises inside the try block of _load_config:
\* open() or json.load() raises, or _normalize_config calls .get on
\* something that is not a dict.
load_raises(found) ==
    found.kind \in {"unreadable", "not_json", "not_object", "bad_section"}

\* The outcomes of save_config: the document is written, open() fails and the
\* file stays as it was, or json.dump fails after open() truncated the file.
WriteOutcomes == {"ok", "open_fails", "dump_fails"}

\* save_config leaving the file for later.
save_config_deferred(cfg, found, outcome) == found

\* save_config: the file after json.dump(self._config), by outcome.  The
\* exception of a failed write is logged, never raised.
save_config(cfg, found, outcome) ==
    CASE outcome = "ok"         -> OnDisk(document(cfg))
      [] outcome = "open_fails" -> found
      [] outcome = "dump_fails" -> NotJson

\* _load_config without its try/except.
load_config_unguarded(found, outcome) ==
    IF found.kind = "missing"
    THEN [raised |-> FALSE, config |-> default_config, disk |-> found,
          saved |-> "none"]
    ELSE IF load_raises(found)
    THEN [raised |-> TRUE, config |-> default_config, disk |-> found,
          saved |-> "none"]
    ELSE LET cfg == normalize_config(found.doc) IN
         [raised |-> FALSE, config |-> cfg,
          disk   |-> IF document(cfg) # found.doc
                     THEN save_config(cfg, found, outcome) ELSE found,
          saved  |-> IF document(cfg) # found.doc THEN outcome ELSE "none"]

\* _load_config: the defaults when there is no file or reading it raises,
\* else the normalised document, saved when normalising changed it.
load_config(found, outcome) ==
    IF found.kind = "missing"
    THEN [raised |-> FALSE, config |-> default_config, disk |-> found,
          saved |-> "none"]
    ELSE IF load_raises(found)
    THEN [raised |-> FALSE, config |-> default_config, disk |-> found,
          saved |-> "none"]
    ELSE LET cfg == normalize_config(found.doc) IN
         [raised |-> FALSE, config |-> cfg,
          disk   |-> IF document(cfg) # found.doc
                     THEN save_config(cfg, found, outcome) ELSE found,
          saved  |-> IF document(cfg) # found.doc THEN outcome ELSE "none"]

\* ConfigManager.get_interval_minutes
get_interval_minutes(cfg, t) == cfg.reminders[t].interval_minutes

\* _set_reminder_value: `reminder_config[key] = value`
set_reminder_value(cfg, t, key, value) ==
    [cfg EXCEPT !.reminders[t] = (key :> value) @@ @]

\* ConfigManager.set_interval_minutes (the save_config it ends with is in the
\* action that calls it)
set_interval_minutes(cfg, t, value) ==
    set_reminder_value(cfg, t, "interval_minutes", value)

\* _set_global: `self._config["global"][key] = value`
set_global(cfg, key, value) ==
    IF key = "sound_enabled" THEN [cfg EXCEPT !.sound_enabled = value]
                             ELSE [cfg EXCEPT !.tts_enabled = value]

\* ConfigManager.update without its save_config: the global updates and each
\* reminder's updates are merged into what is there.
update(cfg, updates) ==
    [sound_enabled |-> IF "sound_enabled" \in DOMAIN updates.global
                       THEN updates.global.sound_enabled ELSE cfg.sound_enabled,
     tts_enabled   |-> IF "tts_enabled" \in DOMAIN updates.global
                       THEN updates.global.tts_enabled ELSE cfg.tts_enabled,
     reminders     |-> [t \in ReminderTypes |->
        IF t \in DOMAIN updates.reminders
        THEN updates.reminders[t] @@ cfg.reminders[t]
        ELSE cfg.reminders[t]]]

\* ConfigManager.interval_minutes, the property app.py reads and assigns for
\* the blink interval: the blink counterpart of walking_interval_minutes.
config_interval_minutes(cfg) == get_interval_minutes(cfg, "blink")

\* The interval property of ConfigManager that app.py uses for type t.
interval_property(cfg, t) ==
    IF t = "blink" THEN config_interval_minutes(cfg) ELSE get_interval_minutes(cfg, t)

\* The sectioned file that gives type t the interval m[t] and nothing else.
IntervalsFile(m) ==
    [EmptyFile EXCEPT !.format = "sectioned",
                      !.reminders = [t \in ReminderTypes |->
        [EmptyFile.reminders[t] EXCEPT !.interval_minutes =
            IF t \in DOMAIN m THEN {m[t]} ELSE {}]]]

\* ----------------------------------------------------------------- dispatch
\* Nothing dispatched yet for a type.
NoDispatch == [kind |-> "none", shown |-> FALSE, sound |-> FALSE, spoken |-> FALSE]

\* scheduled_sound with the preview's OR.
scheduled_sound_either(cfg, t) ==
    cfg.sound_enabled \/ cfg.reminders[t].sound_enabled

\* `sound_enabled = config.sound_enabled and config.<type>_sound_enabled`
scheduled_sound(cfg, t) ==
    cfg.sound_enabled /\ cfg.reminders[t].sound_enabled

\* `if config.tts_enabled and config.<type>_tts_enabled:`
scheduled_tts(cfg, t) ==
    cfg.tts_enabled /\ cfg.reminders[t].tts_enabled

\* preview_sound with the scheduled path's AND.
preview_sound_both(cfg, t) ==
    cfg.sound_enabled /\ cfg.reminders[t].sound_enabled

\* `sound_enabled = config.sound_enabled or config.<type>_sound_enabled`
preview_sound(cfg, t) ==
    cfg.sound_enabled \/ cfg.reminders[t].sound_enabled

\* `tts_preview = config.tts_enabled or config.<type>_tts_enabled`
preview_tts(cfg, t) ==
    cfg.tts_enabled \/ cfg.reminders[t].tts_enabled

\* NotificationManager.show_notification followed by the caller's TTS step:
\* a toast is built and shown, with set_audio(audio.Default) when
\* sound_enabled, and the message goes to speak_async when speak.
show_notification(kind, sound_enabled, speak) ==
    [kind |-> kind, shown |-> TRUE, sound |-> sound_enabled, spoken |-> speak]

\* on_reminder without the hidden test.
on_reminder_ignoring_hidden(t) ==
    /\ dispatched' = [dispatched EXCEPT ![t] =
            show_notification("fired", scheduled_sound(config, t),
                              scheduled_tts(config, t))]
    /\ last_shown_at' = [last_shown_at EXCEPT ![t] = clock]
    /\ UNCHANGED <<config, disk, startup, last_save, tts, spoken>>

\* NotifyMeApp._on_<type>_reminder, the callback of timer t.
on_reminder(t) ==
    /\ IF config.reminders[t].hidden
       THEN /\ dispatched' = [dispatched EXCEPT ![t] =
                    [NoDispatch EXCEPT !.kind = "fired"]]
            /\ last_shown_at' = last_shown_at
       ELSE /\ dispatched' = [dispatched EXCEPT ![t] =
                    show_notification("fired", scheduled_sound(config, t),
                                      scheduled_tts(config, t))]
            /\ last_shown_at' = [last_shown_at EXCEPT ![t] = clock]
    /\ UNCHANGED <<config, disk, startup, last_save, tts, spoken>>

\* on_reminder_raises with neither try block: a failing call's exception
\* leaves the callback.
on_reminder_raises_uncaught(toast_fails, tts_fails) == toast_fails \/ tts_fails

\* Whether an exception leaves the callback when building or showing the
\* toast raises (toast_fails) or get_tts_manager()/speak_async raises
\* (tts_fails): show_notification catches the first (notifications.py lines
\* 67-91) and the callback's own try block the second (lines 97-103).
on_reminder_raises(toast_fails, tts_fails) == FALSE

\* NotifyMeApp._on_<type>_reminder when the toast or the TTS call may fail:
\* a toast that failed was not shown, last_<type>_shown_at is assigned after
\* show_notification returned either way, and a failed TTS call spoke
\* nothing.
on_reminder_failing(t, toast_fails, tts_fails) ==
    /\ IF config.reminders[t].hidden
       THEN /\ dispatched' = [dispatched EXCEPT ![t] =
                    [NoDispatch EXCEPT !.kind = "fired"]]
            /\ last_shown_at' = last_shown_at
       ELSE /\ dispatched' = [dispatched EXCEPT ![t] =
                    [kind   |-> "fired",
                     shown  |-> ~toast_fails,
                     sound  |-> scheduled_sound(config, t) /\ ~toast_fails,
                     spoken |-> scheduled_tts(config, t) /\ ~tts_fails]]
            /\ last_shown_at' = [last_shown_at EXCEPT ![t] = clock]
    /\ UNCHANGED <<config, disk, startup, last_save, tts, spoken>>

\* --------------------------------------------------------------- TTSManager
ManagerIds == 1..MaxManagers

\* A TTSManager that has not been constructed.
NoManager ==
    [created |-> FALSE, once |-> FALSE, queue |-> <<>>, stop_event |-> FALSE,
     pc |-> "none", current |-> 0]

\* TTSManager.__init__ with pyttsx3 available: an empty queue, the stop event
\* clear, and the worker thread started, about to test its loop condition.
\* once tells a manager made inside speak_once from one its caller holds.
TTSManager(once) ==
    [created |-> TRUE, once |-> once, queue |-> <<>>, stop_event |-> FALSE,
     pc |-> "check", current |-> 0]

\* The requests made so far; a request is named by its number in the order
\* of the speak() calls.
Requested ==
    {tts[m].current : m \in ManagerIds}
      \cup UNION {{tts[m].queue[i] : i \in DOMAIN tts[m].queue} : m \in ManagerIds}
      \cup {spoken[i] : i \in DOMAIN spoken}

\* The number the next request gets.
NextRequest ==
    CHOOSE r \in 1..(MaxRequests + 1) :
        /\ r \notin Requested
        /\ \A q \in 1..(r - 1) : q \in Requested

\* TTSManager.speak (and speak_async) with a text, on an enabled manager:
\* `self._queue.put((text, lang))` on an unbounded queue.
speak(mgr, r) == [mgr EXCEPT !.queue = Append(@, r)]

\* TTSManager.stop: the stop event is set; the join gives up after a second,
\* so stop returns whatever the worker is doing.
stop_manager(mgr) == [mgr EXCEPT !.stop_event = TRUE]

\* ------------------------------------------------------------ ReminderTimer
\* ReminderTimer.__init__
ReminderTimer(interval_minutes, offset_seconds) ==
    [interval_minutes   |-> interval_minutes,
     offset_seconds     |-> offset_seconds,
     is_running         |-> FALSE,
     is_paused          |-> FALSE,
     next_reminder_time |-> NoTime,
     idle_suppressed    |-> FALSE]


\* A thread slot with no thread in it (self.thread not started, or the
\* worker returned).
NoThread == [pc |-> "none", now |-> Unread, interval_seconds |-> Unread]

\* A freshly started thread, about to evaluate `while self.is_running`.
NewThread == [NoThread EXCEPT !.pc = "loop"]

\* ReminderTimer.start: the fields after the call.
start(tm) ==
    IF ~tm.is_running
    THEN [tm EXCEPT !.is_running = TRUE, !.is_paused = FALSE]
    ELSE tm

\* start_spawns without the is_running test: every call starts a thread.
start_spawns_always(tm) == tm.is_running \/ ~tm.is_running

\* ReminderTimer.start: whether the call creates and starts a thread.
start_spawns(tm) == ~tm.is_running

\* ReminderTimer.stop
stop(tm) == [tm EXCEPT !.is_running = FALSE, !.is_paused = FALSE]

\* ReminderTimer.pause
pause(tm) == [tm EXCEPT !.is_paused = TRUE]

\* ReminderTimer.resume
resume(tm) == [tm EXCEPT !.is_paused = FALSE]

\* snooze_effective without the is_paused test.
snooze_effective_when_paused(tm) == tm.is_running

\* ReminderTimer.snooze: whether the call takes effect.
snooze_effective(tm) == tm.is_running /\ ~tm.is_paused

\* snooze taking its argument for seconds.
snooze_in_seconds(tm, now, minutes) ==
    IF snooze_effective(tm)
    THEN [tm EXCEPT !.next_reminder_time = now + minutes]
    ELSE tm

\* ReminderTimer.snooze
snooze(tm, now, minutes) ==
    IF snooze_effective(tm)
    THEN [tm EXCEPT !.next_reminder_time = now + (minutes * 60)]
    ELSE tm

\* update_interval that also drops the pending next_reminder_time.
update_interval_rescheduling(tm, interval_minutes) ==
    [tm EXCEPT !.interval_minutes = interval_minutes,
               !.next_reminder_time = NoTime]

\* ReminderTimer.update_interval
update_interval(tm, interval_minutes) ==
    [tm EXCEPT !.interval_minutes = interval_minutes]

\* _should_reset_due_to_idle comparing with > instead of >=.
should_reset_when_idle_longer(idle_seconds, interval_seconds) ==
    IF idle_seconds = IdleUnavailable
    THEN FALSE
    ELSE idle_seconds > interval_seconds

\* ReminderTimer._should_reset_due_to_idle
should_reset_due_to_idle(idle_seconds, interval_seconds) ==
    IF idle_seconds = IdleUnavailable
    THEN FALSE
    ELSE idle_seconds >= interval_seconds

\* ------------------------------------------------------------------- Init
\* TimerManager.__init__ followed by create_timer for every type in S, each
\* with an interval from the configuration.
create_timer(t, interval_minutes) ==
    ReminderTimer(interval_minutes, DEFAULT_OFFSETS_SECONDS[t])

\* NotifyMeApp.__init__ (lines 38-58) with the types in S, when config_file
\* is one of Found and a write during the load ends as one of Outcomes: the
\* configuration is loaded and normalised, nothing has been shown, and
\* _setup_timers creates each timer with the interval of its configuration
\* property.
Constructed(S, Found, Outcomes) ==
    /\ clock = 0
    /\ is_global_paused = FALSE
    /\ \E found \in Found, outcome \in Outcomes :
          LET loaded == load_config(found, outcome) IN
            /\ config = loaded.config
            /\ disk = loaded.disk
            /\ startup = [found |-> found, raised |-> loaded.raised]
            /\ last_save = loaded.saved
    /\ tts = [m \in ManagerIds |-> NoManager]
    /\ spoken = <<>>
    /\ timers = [t \in S |-> create_timer(t, interval_property(config, t))]
    /\ threads = [t \in S |-> [k \in ThreadIds |-> NoThread]]
    /\ last_call = [t \in S |-> NoTime]
    /\ snoozed = [t \in S |-> FALSE]
    /\ snooze_until = [t \in S |-> NoTime]
    /\ ncalls = 0
    /\ last_shown_at = [t \in S |-> NoTime]
    /\ dispatched = [t \in S |-> NoDispatch]

\* The application on a file that sets only the intervals of the types in S.
Created(S) ==
    Constructed(S, {OnDisk(IntervalsFile(m)) : m \in [S -> IntervalChoices]},
                {"ok"})

\* A manager holding one timer, of either type.
Init == \E t \in Types : Created({t})

\* A manager holding a timer of every type.
InitAll == Created(Types)

\* ------------------------------------------------------------ TimerManager
\* The slot the next thread of timer t goes into.
FreeSlots(t) == {k \in ThreadIds : threads[t][k].pc = "none"}
FirstFree(t) == CHOOSE k \in FreeSlots(t) : \A j \in FreeSlots(t) : k <= j

\* threading.Thread(target=self._timer_worker).start() for every timer in S
\* whose start() call spawns.
Spawned(S) ==
    [t \in Registered |->
        IF t \in S /\ start_spawns(timers[t])
        THEN [threads[t] EXCEPT ![FirstFree(t)] = NewThread]
        ELSE threads[t]]

\* Room for the threads that starting the timers in S would create.
CanSpawn(S) == \A t \in S : start_spawns(timers[t]) => FreeSlots(t) # {}

\* One more public-method call, while the run's budget lasts.
Called == ncalls < MaxCalls /\ ncalls' = ncalls + 1

\* TimerManager.start_all
start_all ==
    /\ Called
    /\ CanSpawn(Registered)
    /\ is_global_paused' = FALSE
    /\ timers' = [t \in Registered |-> start(timers[t])]
    /\ threads' = Spawned(Registered)
    /\ UNCHANGED <<clock, last_call, snoozed, snooze_until, appvars>>

\* TimerManager.stop_all
stop_all ==
    /\ Called
    /\ is_global_paused' = FALSE
    /\ timers' = [t \in Registered |-> stop(timers[t])]
    /\ UNCHANGED <<clock, threads, last_call, snoozed, snooze_until, appvars>>

\* TimerManager.pause_all
pause_all ==
    /\ Called
    /\ is_global_paused' = TRUE
    /\ timers' = [t \in Registered |-> pause(timers[t])]
    /\ UNCHANGED <<clock, threads, last_call, snoozed, snooze_until, appvars>>

\* resume_all clearing the global flag only.
resume_all_global_only ==
    /\ Called
    /\ is_global_paused' = FALSE
    /\ UNCHANGED <<clock, timers, threads, last_call, snoozed, snooze_until, appvars>>

\* TimerManager.resume_all
resume_all ==
    /\ Called
    /\ is_global_paused' = FALSE
    /\ timers' = [t \in Registered |-> resume(timers[t])]
    /\ UNCHANGED <<clock, threads, last_call, snoozed, snooze_until, appvars>>

\* TimerManager.snooze_all: the timers the loop calls snooze() on.
snooze_all_targets == {t \in Registered : ~timers[t].is_paused}

\* TimerManager.snooze_all (NotifyMeApp.snooze_reminder passes 5)
snooze_all(minutes) ==
    /\ Called
    /\ timers' = [t \in Registered |->
                    IF t \in snooze_all_targets
                    THEN snooze(timers[t], clock, minutes)
                    ELSE timers[t]]
    /\ snoozed' = [t \in Registered |->
                    IF t \in snooze_all_targets /\ snooze_effective(timers[t])
                    THEN TRUE
                    ELSE snoozed[t]]
    /\ snooze_until' = [t \in Registered |->
                    IF t \in snooze_all_targets /\ snooze_effective(timers[t])
                    THEN clock + (minutes * 60)
                    ELSE snooze_until[t]]
    /\ UNCHANGED <<clock, is_global_paused, threads, last_call, appvars>>

\* toggled without the test: the timer is paused whatever its flag was.
toggled_always_pausing(tm) == pause(tm)

\* `if timer.is_paused: timer.resume() else: timer.pause()` (lines 213-216)
toggled(tm) == IF tm.is_paused THEN resume(tm) ELSE pause(tm)

\* TimerManager.toggle_timer_pause
toggle_timer_pause(t) ==
    /\ Called
    /\ timers' = [timers EXCEPT ![t] = toggled(timers[t])]
    /\ UNCHANGED <<clock, is_global_paused, threads, last_call, snoozed, snooze_until, appvars>>

\* TimerManager.pause_timer
pause_timer(t) ==
    /\ Called
    /\ timers' = [timers EXCEPT ![t] = pause(timers[t])]
    /\ UNCHANGED <<clock, is_global_paused, threads, last_call, snoozed, snooze_until, appvars>>

\* TimerManager.resume_timer
resume_timer(t) ==
    /\ Called
    /\ timers' = [timers EXCEPT ![t] = resume(timers[t])]
    /\ UNCHANGED <<clock, is_global_paused, threads, last_call, snoozed, snooze_until, appvars>>

\* TimerManager.update_timer_interval
update_timer_interval(t, interval_minutes) ==
    /\ Called
    /\ timers' = [timers EXCEPT ![t] = update_interval(timers[t], interval_minutes)]
    /\ UNCHANGED <<clock, is_global_paused, threads, last_call, snoozed, snooze_until, appvars>>

\* NotifyMeApp.test_<type>_notification
test_notification(t) ==
    /\ Called
    /\ dispatched' = [dispatched EXCEPT ![t] =
            show_notification("test", preview_sound(config, t),
                              preview_tts(config, t))]
    /\ UNCHANGED <<clock, is_global_paused, timers, threads, last_call, snoozed, snooze_until,
                   config, disk, startup, last_save, tts, spoken, last_shown_at>>

\* The assignment `self.config.interval_minutes = minutes` of set_interval,
\* as the blink counterpart of the walking_interval_minutes setter.
set_config_interval_minutes(cfg, value) == set_interval_minutes(cfg, "blink", value)

\* set_interval_property leaving the configuration as it was.
set_interval_property_dropped(cfg, t, value) == cfg

\* The assignment to the interval property of type t in set_<type>_interval.
set_interval_property(cfg, t, value) ==
    IF t = "blink" THEN set_config_interval_minutes(cfg, value)
                   ELSE set_interval_minutes(cfg, t, value)

\* NotifyMeApp.set_<type>_interval(minutes): the configuration is written
\* and saved, the save ending as outcome, then the timer is updated.
set_interval(t, minutes, outcome) ==
    /\ Called
    /\ config' = set_interval_property(config, t, minutes)
    /\ disk' = save_config(config', disk, outcome)
    /\ last_save' = outcome
    /\ timers' = [timers EXCEPT ![t] = update_interval(timers[t], minutes)]
    /\ UNCHANGED <<clock, is_global_paused, threads, last_call, snoozed, snooze_until,
                   startup, tts, spoken, last_shown_at, dispatched>>

\* ConfigManager.set_interval_minutes(t, value), the save ending as outcome.
config_set_interval_minutes(t, value, outcome) ==
    /\ Called
    /\ config' = set_interval_minutes(config, t, value)
    /\ disk' = save_config(config', disk, outcome)
    /\ last_save' = outcome
    /\ UNCHANGED <<clock, is_global_paused, timers, threads, last_call, snoozed, snooze_until,
                   startup, tts, spoken, last_shown_at, dispatched>>

\* ConfigManager.set_sound_enabled, set_tts_enabled and set_hidden of type t
\* (key names the flag), the save ending as outcome.
config_set_flag(t, key, value, outcome) ==
    /\ Called
    /\ config' = set_reminder_value(config, t, key, value)
    /\ disk' = save_config(config', disk, outcome)
    /\ last_save' = outcome
    /\ UNCHANGED <<clock, is_global_paused, timers, threads, last_call, snoozed, snooze_until,
                   startup, tts, spoken, last_shown_at, dispatched>>

\* ConfigManager.set(key, value) and the setters of the global properties
\* sound_enabled and tts_enabled, the save ending as outcome.
config_set(key, value, outcome) ==
    /\ Called
    /\ config' = set_global(config, key, value)
    /\ disk' = save_config(config', disk, outcome)
    /\ last_save' = outcome
    /\ UNCHANGED <<clock, is_global_paused, timers, threads, last_call, snoozed, snooze_until,
                   startup, tts, spoken, last_shown_at, dispatched>>

\* ConfigManager.update(updates), the save ending as outcome.
config_update(updates, outcome) ==
    /\ Called
    /\ config' = update(config, updates)
    /\ disk' = save_config(config', disk, outcome)
    /\ last_save' = outcome
    /\ UNCHANGED <<clock, is_global_paused, timers, threads, last_call, snoozed, snooze_until,
                   startup, tts, spoken, last_shown_at, dispatched>>

\* What the TTS actions leave alone.
nottsvars ==
    <<clock, is_global_paused, timers, threads, last_call, snoozed, snooze_until, ncalls,
      config, disk, startup, last_save, last_shown_at, dispatched>>

\* One more speech request, while the run's budget lasts.
CanRequest == NextRequest <= MaxRequests

\* TTSManager(): the one manager its caller keeps and speaks through.
tts_create(m) ==
    /\ ~tts[m].created
    /\ \A x \in ManagerIds : tts[x].created => tts[x].once
    /\ tts' = [tts EXCEPT ![m] = TTSManager(FALSE)]
    /\ UNCHANGED <<spoken, nottsvars>>

\* manager.speak(text) on a manager the caller holds.
tts_speak(m) ==
    /\ tts[m].created /\ ~tts[m].once
    /\ CanRequest
    /\ tts' = [tts EXCEPT ![m] = speak(@, NextRequest)]
    /\ UNCHANGED <<spoken, nottsvars>>

\* manager.stop() on a manager the caller holds.
tts_stop(m) ==
    /\ tts[m].created /\ ~tts[m].once
    /\ ~tts[m].stop_event
    /\ tts' = [tts EXCEPT ![m] = stop_manager(@)]
    /\ UNCHANGED <<spoken, nottsvars>>

\* speak_once(text) up to the end of its with block: tts_manager() makes a
\* TTSManager and manager.speak(text) puts the request on its queue.
speak_once_enter(m) ==
    /\ ~tts[m].created
    /\ CanRequest
    /\ tts' = [tts EXCEPT ![m] = speak(TTSManager(TRUE), NextRequest)]
    /\ UNCHANGED <<spoken, nottsvars>>

\* speak_once leaving its with block: the finally of tts_manager() calls
\* manager.stop() and speak_once returns.
speak_once_exit(m) ==
    /\ tts[m].created /\ tts[m].once
    /\ ~tts[m].stop_event
    /\ tts' = [tts EXCEPT ![m] = stop_manager(@)]
    /\ UNCHANGED <<spoken, nottsvars>>

\* _worker at `while not self._stop_event.is_set()`: the thread ends when
\* the event is set, else it goes to queue.get.
tts_worker_check(m) ==
    /\ tts[m].pc = "check"
    /\ tts' = [tts EXCEPT ![m].pc = IF tts[m].stop_event THEN "exited" ELSE "get"]
    /\ UNCHANGED <<spoken, nottsvars>>

\* _worker in `self._queue.get(timeout=0.2)`: the head of the queue is taken
\* and its speech begins, or the get times out on an empty queue.
tts_worker_get(m) ==
    /\ tts[m].pc = "get"
    /\ IF tts[m].queue = <<>>
       THEN /\ tts' = [tts EXCEPT ![m].pc = "check"]
            /\ spoken' = spoken
       ELSE /\ tts' = [tts EXCEPT ![m].pc = "run",
                                  ![m].current = Head(tts[m].queue),
                                  ![m].queue = Tail(tts[m].queue)]
            /\ spoken' = Append(spoken, Head(tts[m].queue))
    /\ UNCHANGED nottsvars

\* _worker when engine.runAndWait() returns or raises: the engine is
\* stopped and the loop goes round.
tts_worker_done(m) ==
    /\ tts[m].pc = "run"
    /\ tts' = [tts EXCEPT ![m].pc = "check", ![m].current = 0]
    /\ UNCHANGED <<spoken, nottsvars>>

\* One step of the worker thread of manager m.
tts_worker(m) ==
    \/ tts_worker_check(m)
    \/ tts_worker_get(m)
    \/ tts_worker_done(m)

\* get_timer(t).start(): ReminderTimer.start called on one timer.
timer_start(t) ==
    /\ Called
    /\ CanSpawn({t})
    /\ timers' = [timers EXCEPT ![t] = start(timers[t])]
    /\ threads' = Spawned({t})
    /\ UNCHANGED <<clock, is_global_paused, last_call, snoozed, snooze_until, appvars>>

\* get_timer(t).stop(): ReminderTimer.stop called on one timer.
timer_stop(t) ==
    /\ Called
    /\ timers' = [timers EXCEPT ![t] = stop(timers[t])]
    /\ UNCHANGED <<clock, is_global_paused, threads, last_call, snoozed, snooze_until, appvars>>

\* get_timer(t).snooze(minutes): ReminderTimer.snooze called on one timer.
timer_snooze(t, minutes) ==
    /\ Called
    /\ timers' = [timers EXCEPT ![t] = snooze(timers[t], clock, minutes)]
    /\ snoozed' = [snoozed EXCEPT ![t] =
                    snooze_effective(timers[t]) \/ snoozed[t]]
    /\ snooze_until' = [snooze_until EXCEPT ![t] =
                    IF snooze_effective(timers[t])
                    THEN clock + (minutes * 60)
                    ELSE snooze_until[t]]
    /\ UNCHANGED <<clock, is_global_paused, threads, last_call, appvars>>

\* --------------------------------------------- ReminderTimer._timer_worker
\* Thread k of timer t moves to record th.
Moved(t, k, th) == [threads EXCEPT ![t][k] = th]

\* time.sleep(1) (lines 108, 121, 124): the thread is suspended until the
\* clock has advanced by SleepSeconds; its locals are dead.
Asleep == [NoThread EXCEPT !.pc = "sleep"]

\* worker_loop as `while True:`: the flag is never looked at.
worker_loop_forever(t, k) ==
    /\ threads[t][k].pc = "loop"
    /\ threads' = Moved(t, k, [threads[t][k] EXCEPT !.pc = "poll"])
    /\ UNCHANGED <<clock, is_global_paused, timers, last_call, snoozed, snooze_until, ncalls,
                   appvars>>

\* `while self.is_running:` (line 100); the worker returns when it is false.
worker_loop(t, k) ==
    /\ threads[t][k].pc = "loop"
    /\ threads' = Moved(t, k, IF timers[t].is_running
                              THEN [threads[t][k] EXCEPT !.pc = "poll"]
                              ELSE NoThread)
    /\ UNCHANGED <<clock, is_global_paused, timers, last_call, snoozed, snooze_until, ncalls,
                   appvars>>

\* worker_poll without the is_paused test: a paused timer is polled like a
\* running one.
worker_poll_ignoring_pause(t, k) ==
    /\ threads[t][k].pc = "poll"
    /\ threads' = Moved(t, k,
            [threads[t][k] EXCEPT
                     !.pc = "idle",
                     !.interval_seconds = timers[t].interval_minutes * 60,
                     !.now = clock])
    /\ UNCHANGED <<clock, is_global_paused, timers, last_call, snoozed,
                   snooze_until, ncalls, appvars>>

\* `if not self.is_paused:` with the reads of interval_minutes and
\* time.time() (lines 101-103), or the sleep of the paused branch (line 124).
worker_poll(t, k) ==
    /\ threads[t][k].pc = "poll"
    /\ threads' = Moved(t, k,
            IF ~timers[t].is_paused
            THEN [threads[t][k] EXCEPT
                     !.pc = "idle",
                     !.interval_seconds = timers[t].interval_minutes * 60,
                     !.now = clock]
            ELSE Asleep)
    /\ UNCHANGED <<clock, is_global_paused, timers, last_call, snoozed, snooze_until, ncalls,
                   appvars>>

\* worker_idle suppressing without pushing next_reminder_time.
worker_idle_without_push(t, k, idle_seconds) ==
    LET th == threads[t][k]
    IN  /\ th.pc = "idle"
        /\ IF should_reset_due_to_idle(idle_seconds, th.interval_seconds)
           THEN /\ timers' = [timers EXCEPT ![t].idle_suppressed = TRUE]
                /\ threads' = Moved(t, k, Asleep)
           ELSE /\ timers' = [timers EXCEPT ![t].idle_suppressed = FALSE]
                /\ threads' = Moved(t, k, [th EXCEPT !.pc = "sched"])
        /\ UNCHANGED <<clock, is_global_paused, last_call, snoozed, snooze_until, ncalls, appvars>>

\* The idle check (lines 105-112) on the reading idle_seconds.
worker_idle(t, k, idle_seconds) ==
    LET th == threads[t][k]
    IN  /\ th.pc = "idle"
        /\ IF should_reset_due_to_idle(idle_seconds, th.interval_seconds)
           THEN /\ timers' = [timers EXCEPT
                        ![t].idle_suppressed = TRUE,
                        ![t].next_reminder_time = th.now + th.interval_seconds]
                /\ threads' = Moved(t, k, Asleep)
           ELSE /\ timers' = [timers EXCEPT ![t].idle_suppressed = FALSE]
                /\ threads' = Moved(t, k, [th EXCEPT !.pc = "sched"])
        /\ UNCHANGED <<clock, is_global_paused, last_call, snoozed, snooze_until, ncalls, appvars>>

\* `if self.next_reminder_time is None:` (line 114)
worker_sched(t, k) ==
    /\ threads[t][k].pc = "sched"
    /\ threads' = Moved(t, k, [threads[t][k] EXCEPT !.pc =
            IF timers[t].next_reminder_time = NoTime THEN "init" ELSE "due"])
    /\ UNCHANGED <<clock, is_global_paused, timers, last_call, snoozed, snooze_until, ncalls,
                   appvars>>

\* worker_init scheduling the first fire at now plus the offset only.
worker_init_without_interval(t, k) ==
    LET th == threads[t][k]
    IN  /\ th.pc = "init"
        /\ timers' = [timers EXCEPT ![t].next_reminder_time =
                th.now + timers[t].offset_seconds]
        /\ threads' = Moved(t, k, [th EXCEPT !.pc = "due"])
        /\ UNCHANGED <<clock, is_global_paused, last_call, snoozed, snooze_until, ncalls, appvars>>

\* The first scheduling (line 115)
worker_init(t, k) ==
    LET th == threads[t][k]
    IN  /\ th.pc = "init"
        /\ timers' = [timers EXCEPT ![t].next_reminder_time =
                th.now + th.interval_seconds + timers[t].offset_seconds]
        /\ threads' = Moved(t, k, [th EXCEPT !.pc = "due"])
        /\ UNCHANGED <<clock, is_global_paused, last_call, snoozed, snooze_until, ncalls, appvars>>

\* worker_due comparing with > instead of >=.
worker_due_after(t, k) ==
    LET th == threads[t][k]
    IN  /\ th.pc = "due"
        /\ threads' = Moved(t, k,
                IF th.now > timers[t].next_reminder_time
                THEN [th EXCEPT !.pc = "call"]
                ELSE Asleep)
        /\ UNCHANGED <<clock, is_global_paused, timers, last_call, snoozed, snooze_until, ncalls,
                   appvars>>

\* worker_due without the comparison: every poll that gets here fires.
worker_due_unconditional(t, k) ==
    LET th == threads[t][k]
    IN  /\ th.pc = "due"
        /\ threads' = Moved(t, k, [th EXCEPT !.pc = "call"])
        /\ UNCHANGED <<clock, is_global_paused, timers, last_call, snoozed, snooze_until, ncalls,
                   appvars>>

\* worker_due firing the first time only: after one invocation of the
\* callback no later poll is due.
worker_due_once(t, k) ==
    LET th == threads[t][k]
    IN  /\ th.pc = "due"
        /\ threads' = Moved(t, k,
                IF th.now >= timers[t].next_reminder_time /\ last_call[t] = NoTime
                THEN [th EXCEPT !.pc = "call"]
                ELSE Asleep)
        /\ UNCHANGED <<clock, is_global_paused, timers, last_call, snoozed,
                       snooze_until, ncalls, appvars>>

\* `if now >= self.next_reminder_time:` (line 117), else the sleep of line 121
worker_due(t, k) ==
    LET th == threads[t][k]
    IN  /\ th.pc = "due"
        /\ threads' = Moved(t, k,
                IF th.now >= timers[t].next_reminder_time
                THEN [th EXCEPT !.pc = "call"]
                ELSE Asleep)
        /\ UNCHANGED <<clock, is_global_paused, timers, last_call, snoozed, snooze_until, ncalls,
                   appvars>>

\* `self.callback()` (line 118)
worker_call(t, k) ==
    LET th == threads[t][k]
    IN  /\ th.pc = "call"
        /\ last_call' = [last_call EXCEPT ![t] = th.now]
        /\ snoozed' = [snoozed EXCEPT ![t] = FALSE]
        /\ snooze_until' = [snooze_until EXCEPT ![t] = NoTime]
        /\ threads' = Moved(t, k, [th EXCEPT !.pc = "reset"])
        /\ on_reminder(t)
        /\ UNCHANGED <<clock, is_global_paused, timers, ncalls>>

\* `self.callback()` (line 118) when the calls the callback makes may fail:
\* _timer_worker has no try block, so an exception that left the callback
\* would end the thread before line 119.
worker_call_failing(t, k, toast_fails, tts_fails) ==
    LET th == threads[t][k]
        failed == ~config.reminders[t].hidden
                    /\ \/ toast_fails
                       \/ tts_fails /\ scheduled_tts(config, t)
    IN  /\ th.pc = "call"
        /\ last_call' = [last_call EXCEPT ![t] = th.now]
        /\ snoozed' = [snoozed EXCEPT ![t] = FALSE]
        /\ snooze_until' = [snooze_until EXCEPT ![t] = NoTime]
        /\ threads' = Moved(t, k,
                IF failed /\ on_reminder_raises(toast_fails, tts_fails)
                THEN NoThread
                ELSE [th EXCEPT !.pc = "reset"])
        /\ on_reminder_failing(t, toast_fails, tts_fails)
        /\ UNCHANGED <<clock, is_global_paused, timers, ncalls>>

\* worker_reset rescheduling at the poll time itself (interval left out).
worker_reset_without_interval(t, k) ==
    LET th == threads[t][k]
    IN  /\ th.pc = "reset"
        /\ timers' = [timers EXCEPT ![t].next_reminder_time = th.now]
        /\ threads' = Moved(t, k, Asleep)
        /\ UNCHANGED <<clock, is_global_paused, last_call, snoozed, snooze_until, ncalls, appvars>>

\* worker_reset reading time.time() again instead of using the poll's now.
worker_reset_rereading_clock(t, k) ==
    LET th == threads[t][k]
    IN  /\ th.pc = "reset"
        /\ timers' = [timers EXCEPT ![t].next_reminder_time =
                clock + th.interval_seconds]
        /\ threads' = Moved(t, k, Asleep)
        /\ UNCHANGED <<clock, is_global_paused, last_call, snoozed, snooze_until, ncalls, appvars>>

\* The rescheduling after the callback (line 119) and the sleep of line 121
worker_reset(t, k) ==
    LET th == threads[t][k]
    IN  /\ th.pc = "reset"
        /\ timers' = [timers EXCEPT ![t].next_reminder_time =
                th.now + th.interval_seconds]
        /\ threads' = Moved(t, k, Asleep)
        /\ UNCHANGED <<clock, is_global_paused, last_call, snoozed, snooze_until, ncalls, appvars>>

\* One step of thread k of timer t.
worker(t, k) ==
    \/ worker_loop(t, k)
    \/ worker_poll(t, k)
    \/ \E idle_seconds \in IdleReadings : worker_idle(t, k, idle_seconds)
    \/ worker_sched(t, k)
    \/ worker_init(t, k)
    \/ worker_due(t, k)
    \/ worker_call(t, k)
    \/ worker_reset(t, k)

\* The wall clock advances by TickSeconds; every time.sleep(1) in progress
\* returns, and its thread is back at `while self.is_running`.
Tick ==
    /\ clock + TickSeconds <= MaxTime
    /\ clock' = clock + TickSeconds
    /\ threads' = [t \in Registered |-> [k \in ThreadIds |->
                     IF threads[t][k].pc = "sleep" THEN NewThread
                                                   ELSE threads[t][k]]]
    /\ UNCHANGED <<is_global_paused, timers, last_call, snoozed, snooze_until, ncalls, appvars>>

\* ------------------------------------------------------------------- Next
Next ==
    \/ start_all
    \/ stop_all
    \/ pause_all
    \/ resume_all
    \/ \E m \in SnoozeChoices : snooze_all(m)
    \/ \E t \in Registered : toggle_timer_pause(t)
    \/ \E t \in Registered : pause_timer(t)
    \/ \E t \in Registered : resume_timer(t)
    \/ \E t \in Registered, m \in IntervalChoices : update_timer_interval(t, m)
    \/ \E t \in Registered : timer_start(t)
    \/ \E t \in Registered : timer_stop(t)
    \/ \E t \in Registered, m \in SnoozeChoices : timer_snooze(t, m)
    \/ \E t \in Registered, k \in ThreadIds : worker(t, k)
    \/ Tick

\* One timer; its threads and the caller of the public methods interleave
\* freely.
Spec == Init /\ [][Next]_vars

\* Thread k of timer t is inside an iteration of its loop.
MidIteration(t, k) == threads[t][k].pc \notin {"none", "loop", "sleep"}

\* No thread but (possibly) thread k of timer t is inside an iteration.
OnlyRunner(t, k) ==
    \A u \in Registered, j \in ThreadIds :
        MidIteration(u, j) => u = t /\ j = k

Quiescent == \A t \in Registered, k \in ThreadIds : ~MidIteration(t, k)

\* Sequential scheduling: an iteration of a polling loop, once begun, runs
\* to its sleep before another thread or a public method runs.
NextSeq ==
    \/ Quiescent /\ start_all
    \/ Quiescent /\ stop_all
    \/ Quiescent /\ pause_all
    \/ Quiescent /\ resume_all
    \/ Quiescent /\ \E m \in SnoozeChoices : snooze_all(m)
    \/ Quiescent /\ \E t \in Registered : toggle_timer_pause(t)
    \/ Quiescent /\ \E t \in Registered : pause_timer(t)
    \/ Quiescent /\ \E t \in Registered : resume_timer(t)
    \/ Quiescent /\ \E t \in Registered, m \in IntervalChoices :
                        update_timer_interval(t, m)
    \/ Quiescent /\ \E t \in Registered : timer_start(t)
    \/ Quiescent /\ \E t \in Registered : timer_stop(t)
    \/ Quiescent /\ \E t \in Registered, m \in SnoozeChoices : timer_snooze(t, m)
    \/ \E t \in Registered, k \in ThreadIds : OnlyRunner(t, k) /\ worker(t, k)
    \/ Quiescent /\ Tick

\* A timer of every type, under sequential scheduling.
SpecSeq == InitAll /\ [][NextSeq]_vars

\* One timer that is started and then polled, paused, resumed and snoozed
\* (never stopped, its interval never changed): one polling loop.
NextPolls ==
    \/ start_all
    \/ pause_all
    \/ resume_all
    \/ \E m \in SnoozeChoices : snooze_all(m)
    \/ \E t \in Registered : toggle_timer_pause(t)
    \/ \E t \in Registered : pause_timer(t)
    \/ \E t \in Registered : resume_timer(t)
    \/ \E t \in Registered, m \in SnoozeChoices : timer_snooze(t, m)
    \/ \E t \in Registered, k \in ThreadIds : worker(t, k)
    \/ Tick

SpecPolls == Init /\ [][NextPolls]_vars

\* The readings of a user who may be away for at least the interval when
\* the timer is first polled, stays away for some polls, and is active
\* (idle 0) at every poll after that.
AwayThenBack(t, k) ==
    LET away == {r \in IdleReadings :
                    should_reset_due_to_idle(r, threads[t][k].interval_seconds)}
    IN  IF timers[t].next_reminder_time = NoTime \/ timers[t].idle_suppressed
        THEN away \cup {0}
        ELSE {0}

\* One timer, started and left alone, polled while the user is away and
\* after the user's return.
NextIdle ==
    \/ start_all
    \/ \E t \in Registered, k \in ThreadIds :
          \/ worker_loop(t, k)
          \/ worker_poll(t, k)
          \/ \E idle_seconds \in AwayThenBack(t, k) : worker_idle(t, k, idle_seconds)
          \/ worker_sched(t, k)
          \/ worker_init(t, k)
          \/ worker_due(t, k)
          \/ worker_call(t, k)
          \/ worker_reset(t, k)
    \/ Tick

SpecIdle == Init /\ [][NextIdle]_vars

\* One timer that is started, stopped and paused while its threads run.
NextStop ==
    \/ start_all
    \/ stop_all
    \/ \E t \in Registered : timer_start(t)
    \/ \E t \in Registered : timer_stop(t)
    \/ \E t \in Registered : toggle_timer_pause(t)
    \/ \E t \in Registered, k \in ThreadIds : worker(t, k)
    \/ Tick

\* Every thread that can take a step eventually takes one, and the clock
\* keeps advancing up to MaxTime: the operating system schedules daemon
\* threads fairly and time.sleep(1) returns.
Fairness ==
    /\ WF_vars(Tick)
    /\ \A t \in Types, k \in ThreadIds :
          WF_vars(t \in Registered /\ worker(t, k))

SpecStop == Init /\ [][NextStop]_vars /\ Fairness

\* One timer on a machine whose idle probe never has a reading: every poll
\* gets what get_idle_seconds makes of an unavailable outcome.
NextNoProbe ==
    \/ start_all
    \/ pause_all
    \/ resume_all
    \/ \E minutes \in SnoozeChoices : snooze_all(minutes)
    \/ \E t \in Registered : toggle_timer_pause(t)
    \/ \E t \in Registered, k \in ThreadIds :
          \/ worker_loop(t, k)
          \/ worker_poll(t, k)
          \/ \E o \in {u \in ProbeOutcomes : ProbeUnavailable(u)} :
                worker_idle(t, k, get_idle_seconds(o))
          \/ worker_sched(t, k)
          \/ worker_init(t, k)
          \/ worker_due(t, k)
          \/ worker_call(t, k)
          \/ worker_reset(t, k)
    \/ Tick

SpecNoProbe == Init /\ [][NextNoProbe]_vars

\* The readings of time.time() in the timer-worker tests, in order.
PollTimes == <<1000, 1061>>

\* A ReminderTimer constructed directly, with the default offset_seconds = 0
\* or a stagger offset, when time.time() is at the first of PollTimes.
InitPolled ==
    /\ clock = PollTimes[1]
    /\ is_global_paused = FALSE
    /\ \E t \in Types, m \in IntervalChoices :
        \E off \in {0, DEFAULT_OFFSETS_SECONDS[t]} :
          /\ timers = [x \in {t} |-> ReminderTimer(m, off)]
          /\ threads = [x \in {t} |-> [k \in ThreadIds |-> NoThread]]
          /\ last_call = [x \in {t} |-> NoTime]
          /\ snoozed = [x \in {t} |-> FALSE]
          /\ snooze_until = [x \in {t} |-> NoTime]
    /\ ncalls = 0
    /\ config = default_config
    /\ disk = NoFile
    /\ startup = [found |-> NoFile, raised |-> FALSE]
    /\ last_save = "none"
    /\ tts = [m \in ManagerIds |-> NoManager]
    /\ spoken = <<>>
    /\ \E t \in Registered :
          /\ last_shown_at = [x \in {t} |-> NoTime]
          /\ dispatched = [x \in {t} |-> NoDispatch]

\* time.time() moves on to its next reading; every time.sleep(1) in progress
\* returns.
NextPollTime ==
    /\ \E i \in 1..(Len(PollTimes) - 1) :
          clock = PollTimes[i] /\ clock' = PollTimes[i + 1]
    /\ threads' = [t \in Registered |-> [k \in ThreadIds |->
                     IF threads[t][k].pc = "sleep" THEN NewThread
                                                   ELSE threads[t][k]]]
    /\ UNCHANGED <<is_global_paused, timers, last_call, snoozed, snooze_until, ncalls, appvars>>

\* One timer, started and possibly paused and resumed, polled at PollTimes.
NextPolled ==
    \/ \E t \in Registered : timer_start(t)
    \/ \E t \in Registered : pause_timer(t)
    \/ \E t \in Registered : resume_timer(t)
    \/ \E t \in Registered, k \in ThreadIds : worker(t, k)
    \/ NextPollTime

SpecPolled == InitPolled /\ [][NextPolled]_vars

\* interval_minutes values a configuration file may hold.
FileIntervals == {-1, 0, 1, 2}

\* Sectioned configuration files that set every flag, globally and for
\* type t, and may set the interval of type t.
ConfigFiles(t) ==
    {[EmptyFile EXCEPT
         !.format = "sectioned",
         !.sound_enabled = {gs},
         !.tts_enabled = {gt},
         !.reminders[t] = [interval_minutes |-> iv,
                           sound_enabled    |-> {ps},
                           tts_enabled      |-> {pt},
                           hidden           |-> {h},
                           extra            |-> {}]] :
        gs \in BOOLEAN, gt \in BOOLEAN, ps \in BOOLEAN, pt \in BOOLEAN,
        h \in BOOLEAN, iv \in Opt(FileIntervals)}

\* The application with one reminder type, on any of those files.
InitApp ==
    \E t \in Types :
        Constructed({t}, {OnDisk(file) : file \in ConfigFiles(t)}, {"ok"})

\* The application started from its menu, with test notifications and
\* interval changes while the timer runs.
NextApp ==
    \/ start_all
    \/ \E t \in Registered : test_notification(t)
    \/ \E t \in Registered, m \in IntervalChoices : set_interval(t, m, "ok")
    \/ \E t \in Registered, k \in ThreadIds : worker(t, k)
    \/ Tick

SpecApp == InitApp /\ [][NextApp]_vars

\* Documents config_file may hold: sectioned or legacy flat, each with or
\* without the blink keys interval_minutes, hidden and one unknown key; and
\* the document of the default configuration.
StoredFiles ==
    {[EmptyFile EXCEPT
         !.format = fmt,
         !.reminders["blink"] = [interval_minutes |-> iv,
                                 sound_enabled    |-> {},
                                 tts_enabled      |-> {},
                                 hidden           |-> h,
                                 extra            |-> x]] :
        fmt \in {"sectioned", "flat"},
        iv \in Opt({5}), h \in Opt({TRUE}), x \in Opt({7})}
      \cup {document(default_config)}

\* Everything ConfigManager may find at config_file.
FoundFiles ==
    {NoFile, Unreadable, NotJson, NotObject, BadSection}
      \cup {OnDisk(file) : file \in StoredFiles}

\* update() with nothing for a section.
NoUpdates == [k \in {} |-> {}]

\* Arguments of update(): global and per-reminder updates, partial ones
\* among them.
Updates ==
    {[global |-> g, reminders |-> r] :
        g \in {NoUpdates, [tts_enabled |-> FALSE]},
        r \in {NoUpdates,
               [blink |-> [hidden |-> TRUE]],
               [walking |-> [interval_minutes |-> 2, sound_enabled |-> FALSE]]}}

\* A ConfigManager constructed on any of those files, not yet an application.
InitConfig == Constructed({}, FoundFiles, WriteOutcomes)

\* The setters of ConfigManager and update(), each save ending in any way.
NextConfig ==
    \/ \E t \in Types, m \in IntervalChoices, outcome \in WriteOutcomes :
          config_set_interval_minutes(t, m, outcome)
    \/ \E t \in Types, key \in FlagKeys, b \in BOOLEAN,
          outcome \in WriteOutcomes :
          config_set_flag(t, key, b, outcome)
    \/ \E key \in {"sound_enabled", "tts_enabled"}, b \in BOOLEAN,
          outcome \in WriteOutcomes :
          config_set(key, b, outcome)
    \/ \E updates \in Updates, outcome \in WriteOutcomes :
          config_update(updates, outcome)

SpecConfig == InitConfig /\ [][NextConfig]_vars

\* The application with one reminder type and a valid interval in its file.
InitMenu ==
    \E t \in Types :
        Constructed({t},
                    {OnDisk(file) : file \in
                        {f \in ConfigFiles(t) :
                            f.reminders[t].interval_minutes \in Opt(IntervalChoices)}},
                    {"ok"})

\* Interval selections from the menu, each save ending in any way, with the
\* reminders started, paused and resumed in between.
NextMenu ==
    \/ start_all
    \/ pause_all
    \/ resume_all
    \/ \E t \in Registered, m \in IntervalChoices, outcome \in WriteOutcomes :
          set_interval(t, m, outcome)

SpecMenu == InitMenu /\ [][NextMenu]_vars

\* The application started and left running with an active user, while
\* showing a toast or invoking TTS may fail at any fire.  An iteration of a
\* polling loop is over before the clock moves on (it takes far less than
\* the second the loop sleeps).
NextFailing ==
    \/ start_all
    \/ \E t \in Registered, k \in ThreadIds :
          \/ worker_loop(t, k)
          \/ worker_poll(t, k)
          \/ worker_idle(t, k, 0)
          \/ worker_sched(t, k)
          \/ worker_init(t, k)
          \/ worker_due(t, k)
          \/ \E toast_fails \in BOOLEAN, tts_fails \in BOOLEAN :
                worker_call_failing(t, k, toast_fails, tts_fails)
          \/ worker_reset(t, k)
    \/ Quiescent /\ Tick

\* Every polling thread that can take a step eventually takes one and the
\* clock keeps advancing, whichever calls fail.
FairnessFailing ==
    /\ WF_vars(Quiescent /\ Tick)
    /\ \A t \in Types, k \in ThreadIds :
          WF_vars(t \in Registered /\
                    \/ worker_loop(t, k)
                    \/ worker_poll(t, k)
                    \/ worker_idle(t, k, 0)
                    \/ worker_sched(t, k)
                    \/ worker_init(t, k)
                    \/ worker_due(t, k)
                    \/ \E toast_fails \in BOOLEAN, tts_fails \in BOOLEAN :
                          worker_call_failing(t, k, toast_fails, tts_fails)
                    \/ worker_reset(t, k))

SpecFailing == InitMenu /\ [][NextFailing]_vars /\ FairnessFailing

\* The readings of a user who is never idle for an interval, as thread k of
\* timer t compares them.
NotIdleReadings(t, k) ==
    {r \in IdleReadings :
        ~should_reset_due_to_idle(r, threads[t][k].interval_seconds)}

\* One step of thread k of timer t while the user is never idle for an
\* interval.
worker_not_idle(t, k) ==
    \/ worker_loop(t, k)
    \/ worker_poll(t, k)
    \/ \E idle_seconds \in NotIdleReadings(t, k) : worker_idle(t, k, idle_seconds)
    \/ worker_sched(t, k)
    \/ worker_init(t, k)
    \/ worker_due(t, k)
    \/ worker_call(t, k)
    \/ worker_reset(t, k)

\* A timer that is started and then left running: never paused, stopped,
\* snoozed or idle-suppressed; its interval may be changed.  An iteration of
\* the polling loop is over before the clock moves on.
NextRunning ==
    \/ start_all
    \/ \E t \in Registered, m \in IntervalChoices : update_timer_interval(t, m)
    \/ \E t \in Registered, k \in ThreadIds : worker_not_idle(t, k)
    \/ Quiescent /\ Tick

\* The polling thread is scheduled whenever it can run and time.sleep(1)
\* returns: the clock keeps advancing.
FairnessRunning ==
    /\ WF_vars(Quiescent /\ Tick)
    /\ \A t \in Types, k \in ThreadIds :
          WF_vars(t \in Registered /\ worker_not_idle(t, k))

SpecRunning == Init /\ [][NextRunning]_vars /\ FairnessRunning

\* A process that has made no TTSManager yet.
InitTTS == Constructed({}, {NoFile}, {"ok"})

\* Managers made, spoken through and stopped by their callers, speak_once
\* calls, and the worker threads.
NextTTS ==
    \/ \E m \in ManagerIds : tts_create(m)
    \/ \E m \in ManagerIds : tts_speak(m)
    \/ \E m \in ManagerIds : tts_stop(m)
    \/ \E m \in ManagerIds : speak_once_enter(m)
    \/ \E m \in ManagerIds : speak_once_exit(m)
    \/ \E m \in ManagerIds : tts_worker(m)

SpecTTS == InitTTS /\ [][NextTTS]_vars

\* Every worker thread that can take a step eventually takes one: the
\* operating system schedules the daemon threads, queue.get returns or times
\* out, and runAndWait ends.
FairnessTTS == \A m \in ManagerIds : WF_vars(tts_worker(m))

\* The managers and their workers under fair scheduling.
SpecTTSFair == InitTTS /\ [][NextTTS]_vars /\ FairnessTTS

\* A ConfigManager constructed with no file, with a file that is not JSON,
\* with the empty object, or with a sectioned file that has one unknown key.
InitSetters ==
    Constructed({},
                {NoFile, NotJson, Unreadable, OnDisk(EmptyFile),
                 OnDisk([EmptyFile EXCEPT !.format = "sectioned",
                                          !.reminders["blink"].extra = {7}])},
                WriteOutcomes)

\* The setters and update() on those.
SpecSetters == InitSetters /\ [][NextConfig]_vars

\* Interval settings a user of the single-file application may have saved:
\* the defaults, or a blink or walking interval chosen from its menu.
LegacyIntervals ==
    {[t \in ReminderTypes |->
        CASE t = "blink"   -> b
          [] t = "walking" -> w
          [] OTHER         -> DEFAULT_INTERVALS_MIN[t]] :
        b \in {DEFAULT_INTERVALS_MIN["blink"], 5},
        w \in {DEFAULT_INTERVALS_MIN["walking"], 7}}

\* A ConfigManager constructed on a file the single-file application wrote.
InitLegacy ==
    Constructed({},
                {OnDisk(legacy_document(intervals, sound)) :
                    intervals \in LegacyIntervals, sound \in BOOLEAN},
                WriteOutcomes)

\* The upgrade from the single-file application, and the setters after it.
SpecLegacy == InitLegacy /\ [][NextConfig]_vars

\* ================================================================= claims
\* interval_seconds of timer t as a poll beginning now would read it.
IntervalSeconds(t) == timers[t].interval_minutes * 60

\* Every polling thread of timer t is asleep or gone.
Settled(t) == \A k \in ThreadIds : threads[t][k].pc \in {"none", "sleep"}

\* C1: a timer's callback is never invoked at an instant when the timer's
\* is_paused flag or TimerManager.is_global_paused is true.
C1_NoFireWhilePaused ==
    [][\A t \in Registered, k \in ThreadIds :
          worker_call(t, k) =>
              ~timers[t].is_paused /\ ~is_global_paused]_vars

\* C2 as stated: two consecutive callback invocations of a timer are at
\* least interval_seconds apart, after any polls, snoozes, pauses, resumes
\* and idle readings.
C2_FiresAnIntervalApart ==
    [][\A t \in Registered, k \in ThreadIds :
          worker_call(t, k) /\ last_call[t] # NoTime =>
              threads[t][k].now - last_call[t] >= IntervalSeconds(t)]_vars

\* C2 amended: two consecutive callback invocations of a timer are at least
\* interval_seconds apart unless a snooze took effect between them.
C2_FiresAnIntervalApartUnlessSnoozed ==
    [][\A t \in Registered, k \in ThreadIds :
          worker_call(t, k) /\ last_call[t] # NoTime /\ ~snoozed[t] =>
              threads[t][k].now - last_call[t] >= IntervalSeconds(t)]_vars

\* C2 witness: a timer has fired twice, the second time exactly one
\* interval after the first, with no snooze between.
C2_Witness ==
    \E t \in Registered, k \in ThreadIds :
        /\ threads[t][k].pc = "reset"
        /\ ~snoozed[t]
        /\ last_call[t] >= 2 * IntervalSeconds(t)
        /\ last_call[t] = timers[t].next_reminder_time

\* C3: the write that follows a callback invocation leaves next_reminder_time
\* exactly interval_seconds after the poll time of that invocation.
C3_NoDrift ==
    [][\A t \in Registered, k \in ThreadIds :
          worker_reset(t, k) =>
              timers'[t].next_reminder_time - threads[t][k].now
                  = threads[t][k].interval_seconds]_vars

\* C3 witness: a timer that fired on a poll taken exactly at its
\* next_reminder_time has been rescheduled one interval later.
C3_Witness ==
    \E t \in Registered :
        /\ Settled(t)
        /\ last_call[t] >= 2 * IntervalSeconds(t)
        /\ timers[t].next_reminder_time = last_call[t] + IntervalSeconds(t)

\* C4: a poll that reads an idle time of at least interval_seconds invokes
\* no callback, sets idle_suppressed and sets next_reminder_time to its now
\* plus interval_seconds; idle_suppressed is cleared only by a poll that
\* reads a shorter idle time (or none).
C4_IdleSuppression ==
    [][/\ \A t \in Registered, k \in ThreadIds, r \in IdleReadings :
              /\ worker_idle(t, k, r)
              /\ r # IdleUnavailable
              /\ r >= threads[t][k].interval_seconds
              => /\ timers'[t].idle_suppressed
                 /\ timers'[t].next_reminder_time
                        = threads[t][k].now + threads[t][k].interval_seconds
                 /\ threads'[t][k].pc = "sleep"
                 /\ last_call' = last_call
       /\ \A t \in Registered :
              timers[t].idle_suppressed /\ ~timers'[t].idle_suppressed
              => \E k \in ThreadIds, r \in IdleReadings :
                    /\ worker_idle(t, k, r)
                    /\ r = IdleUnavailable \/ r < threads[t][k].interval_seconds
      ]_vars

\* C4 witness: a timer polled three times while the user was away has never
\* fired, is idle-suppressed and is due one interval after its last poll.
C4_Witness ==
    \E t \in Registered :
        /\ Settled(t)
        /\ clock >= 2 * TickSeconds
        /\ timers[t].idle_suppressed
        /\ last_call[t] = NoTime
        /\ timers[t].next_reminder_time = clock + IntervalSeconds(t)

\* C5: after polls that read the user away and then polls that read idle 0,
\* a poll invokes the callback exactly when its now has reached
\* next_reminder_time, and no callback is invoked again before the
\* next_reminder_time scheduled by the previous invocation.
C5_IdleRecovery ==
    [][\A t \in Registered, k \in ThreadIds :
          /\ worker_due(t, k) =>
                ((threads'[t][k].pc = "call")
                    <=> (threads[t][k].now >= timers[t].next_reminder_time))
          /\ worker_call(t, k) =>
                /\ threads[t][k].now >= timers[t].next_reminder_time
                /\ last_call[t] # NoTime =>
                      threads[t][k].now
                          >= last_call[t] + threads[t][k].interval_seconds
      ]_vars

\* C5 witness: a timer suppressed at its first poll (time 0) fired at the
\* poll taken one interval later, without the stagger offset, and is
\* scheduled one interval after that.
C5_Witness ==
    \E t \in Registered :
        /\ Settled(t)
        /\ ~timers[t].idle_suppressed
        /\ last_call[t] = IntervalSeconds(t)
        /\ timers[t].next_reminder_time = 2 * IntervalSeconds(t)

\* C6: start() on a timer that is already running starts no thread and
\* changes none of the timer's fields.
C6_StartIdempotent ==
    [][\A t \in Registered :
          (timer_start(t) \/ start_all) /\ timers[t].is_running =>
              threads'[t] = threads[t] /\ timers'[t] = timers[t]]_vars

\* C6 witness: a running timer that was paused and then started again is
\* still paused and has one polling thread.
C6_Witness ==
    \E t \in Registered :
        /\ ncalls >= 3
        /\ timers[t].is_running
        /\ timers[t].is_paused
        /\ timers[t].next_reminder_time # NoTime
        /\ Cardinality({k \in ThreadIds : threads[t][k].pc # "none"}) = 1

\* C7: after resume_all the global pause flag is false and no timer is
\* paused.
C7_ResumeAllClearsEveryPause ==
    [][resume_all =>
          /\ ~is_global_paused'
          /\ \A t \in Registered : ~timers'[t].is_paused]_vars

\* C7 witness: after three calls on timers that were never started (a
\* per-type pause, pause_all, resume_all) nothing is paused.
C7_Witness ==
    /\ ncalls >= 3
    /\ ~is_global_paused
    /\ \A t \in Registered : ~timers[t].is_paused /\ ~timers[t].is_running

\* C8: pause_all sets the global pause flag and leaves every timer's own
\* is_paused flag as it was.
C8_PauseAllKeepsPerTypeFlags ==
    [][pause_all =>
          /\ is_global_paused'
          /\ \A t \in Registered :
                timers'[t].is_paused = timers[t].is_paused]_vars

\* C9: with every timer running, snooze_all(m) leaves next_reminder_time
\* of every paused timer unchanged and sets that of every other timer to
\* now + m*60.
C9_SnoozeAllSkipsPaused ==
    [][\A m \in SnoozeChoices :
          snooze_all(m) /\ (\A t \in Registered : timers[t].is_running) =>
              \A t \in Registered :
                  timers'[t].next_reminder_time =
                      IF timers[t].is_paused
                      THEN timers[t].next_reminder_time
                      ELSE clock + m * 60]_vars

\* C9 witness: all timers run, a paused one keeps an earlier schedule and
\* an unpaused one is due 300 s from now.
C9_Witness ==
    /\ \A t \in Registered : timers[t].is_running
    /\ \E t, u \in Registered :
          /\ timers[t].is_paused
          /\ timers[t].next_reminder_time # NoTime
          /\ timers[t].next_reminder_time < clock + 300
          /\ ~timers[u].is_paused
          /\ timers[u].next_reminder_time = clock + 300

\* C10: snooze(m) changes nothing on a timer that is not running or is
\* paused; on a running, unpaused timer it sets next_reminder_time to
\* now + m*60 and changes no other field.
C10_Snooze ==
    [][\A t \in Registered, m \in SnoozeChoices :
          timer_snooze(t, m) =>
              /\ timers' =
                    IF timers[t].is_running /\ ~timers[t].is_paused
                    THEN [timers EXCEPT ![t].next_reminder_time = clock + m * 60]
                    ELSE timers
              /\ threads' = threads
              /\ is_global_paused' = is_global_paused]_vars

\* C10 witness: a running, unpaused timer that has fired (and so had a
\* schedule one interval ahead) is due 300 s from now.
C10_Witness ==
    \E t \in Registered :
        /\ timers[t].is_running
        /\ ~timers[t].is_paused
        /\ last_call[t] # NoTime
        /\ timers[t].next_reminder_time = clock + 300
        /\ snoozed[t]

\* Thread k of timer t sleeps and the clock has reached the last reading
\* explored, so the end of its sleep lies beyond the explored time.
AsleepAtHorizon(t, k) ==
    threads[t][k].pc = "sleep" /\ clock + TickSeconds > MaxTime

\* C11: stop() and stop_all() leave is_running false; a thread that then
\* reaches its loop test starts no iteration and returns; and unless the
\* timer is started again every thread of a stopped timer ends.
C11_StopEndsLoop ==
    /\ [][\A t \in Registered :
             (timer_stop(t) \/ stop_all) => ~timers'[t].is_running]_vars
    /\ [][\A t \in Registered, k \in ThreadIds :
             worker_loop(t, k) /\ ~timers[t].is_running =>
                 threads'[t][k] = NoThread]_vars
    /\ \A t \in Types, k \in ThreadIds :
          (t \in Registered /\ ~timers[t].is_running
                /\ threads[t][k].pc # "none")
          ~> (t \in Registered
                /\ \/ threads[t][k].pc = "none"
                   \/ timers[t].is_running
                   \/ AsleepAtHorizon(t, k))

\* C11 witness: a timer that ran and fired has been stopped and all its
\* threads have returned.
C11_Witness ==
    \E t \in Registered :
        /\ ~timers[t].is_running
        /\ last_call[t] # NoTime
        /\ \A k \in ThreadIds : threads[t][k].pc = "none"

\* idle_suppressed of timer t goes from true to false in this step.
Cleared(t) ==
    timers[t].idle_suppressed /\ ~timers'[t].idle_suppressed

\* C12 as stated: every poll that clears idle_suppressed has read an idle
\* time, and one below interval_seconds; and a thread gets to the callback
\* only from the comparison now >= next_reminder_time being true.
C12_ClearedOnlyBelowInterval ==
    [][\A t \in Registered :
          /\ Cleared(t) =>
                \E k \in ThreadIds, r \in IdleReadings : worker_idle(t, k, r)
          /\ \A k \in ThreadIds, r \in IdleReadings :
                worker_idle(t, k, r) /\ Cleared(t) =>
                    r # IdleUnavailable /\ r < threads[t][k].interval_seconds
          /\ \A k \in ThreadIds :
                threads[t][k].pc # "call" /\ threads'[t][k].pc = "call" =>
                    /\ worker_due(t, k)
                    /\ threads[t][k].now >= timers[t].next_reminder_time]_vars

\* C12 amended: idle_suppressed is cleared only by a poll whose idle reading
\* is unavailable or below the interval_seconds that poll read, and a thread
\* gets to the callback only from the comparison now >= next_reminder_time
\* being true, whether or not the flag was cleared on that poll.
C12_ClearedOnlyWhenNotIdle ==
    [][\A t \in Registered :
          /\ Cleared(t) =>
                \E k \in ThreadIds, r \in IdleReadings : worker_idle(t, k, r)
          /\ \A k \in ThreadIds, r \in IdleReadings :
                worker_idle(t, k, r) /\ Cleared(t) =>
                    \/ r = IdleUnavailable
                    \/ r < threads[t][k].interval_seconds
          /\ \A k \in ThreadIds :
                threads[t][k].pc # "call" /\ threads'[t][k].pc = "call" =>
                    /\ worker_due(t, k)
                    /\ threads[t][k].now >= timers[t].next_reminder_time]_vars

\* C12 witness: the only call so far started the timer, a poll was
\* suppressed (next_reminder_time is that poll's time plus the interval,
\* with no offset), the following poll cleared the flag and is at the
\* callback.
C12_Witness ==
    \E t \in Registered, k \in ThreadIds :
        /\ ncalls = 1
        /\ last_call[t] = NoTime
        /\ threads[t][k].pc = "call"
        /\ ~timers[t].idle_suppressed
        /\ timers[t].next_reminder_time
             = threads[t][k].now - TickSeconds + threads[t][k].interval_seconds

\* C13: with the idle probe unavailable, no poll suppresses, and the step of
\* a poll after the probe is the step of a poll that read idle 0: the thread
\* goes on to the scheduling and the comparison of that same poll, with
\* next_reminder_time untouched.
C13_UnavailableIsNotIdle ==
    /\ [](\A t \in Registered : ~timers[t].idle_suppressed)
    /\ [][\A t \in Registered, k \in ThreadIds :
             \A o \in {u \in ProbeOutcomes : ProbeUnavailable(u)} :
                 worker_idle(t, k, get_idle_seconds(o)) =>
                     /\ worker_idle(t, k, 0)
                     /\ threads'[t][k] = [threads[t][k] EXCEPT !.pc = "sched"]
                     /\ timers'[t].next_reminder_time
                          = timers[t].next_reminder_time]_vars

\* C13 witness: with the probe unavailable at every poll the timer has fired
\* and a later poll has passed the idle check.
C13_Witness ==
    \E t \in Registered, k \in ThreadIds :
        /\ last_call[t] # NoTime
        /\ threads[t][k].pc = "sched"
        /\ threads[t][k].now > last_call[t]

\* C14 as stated: with interval_minutes = 1 and offset_seconds = 0 the first
\* scheduling at now = 1000 writes 1060; the poll at now = 1061 that finds
\* 1060 goes to the callback, which has not been invoked before and is
\* invoked once, and the write after it leaves next_reminder_time = 1120.
C14_ResetTo1120 ==
    [][\A t \in Registered, k \in ThreadIds :
          LET th == threads[t][k]
          IN  timers[t].interval_minutes = 1 /\ th.interval_seconds = 60
                    /\ timers[t].offset_seconds = 0 =>
                /\ worker_init(t, k) /\ th.now = 1000 =>
                        timers'[t].next_reminder_time = 1060
                /\ worker_due(t, k) /\ th.now = 1061
                        /\ timers[t].next_reminder_time = 1060 =>
                        last_call[t] = NoTime /\ threads'[t][k].pc = "call"
                /\ worker_call(t, k) /\ th.now = 1061 =>
                        last_call[t] = NoTime /\ last_call'[t] = 1061
                /\ worker_reset(t, k) /\ th.now = 1061 =>
                        /\ timers'[t].next_reminder_time = 1120
                        /\ threads'[t][k] = Asleep]_vars

\* C14 amended: the same scenario, with the write after the callback leaving
\* next_reminder_time = 1121, the poll time 1061 plus the interval.
C14_ResetTo1121 ==
    [][\A t \in Registered, k \in ThreadIds :
          LET th == threads[t][k]
          IN  timers[t].interval_minutes = 1 /\ th.interval_seconds = 60
                    /\ timers[t].offset_seconds = 0 =>
                /\ worker_init(t, k) /\ th.now = 1000 =>
                        timers'[t].next_reminder_time = 1060
                /\ worker_due(t, k) /\ th.now = 1061
                        /\ timers[t].next_reminder_time = 1060 =>
                        last_call[t] = NoTime /\ threads'[t][k].pc = "call"
                /\ worker_call(t, k) /\ th.now = 1061 =>
                        last_call[t] = NoTime /\ last_call'[t] = 1061
                /\ worker_reset(t, k) /\ th.now = 1061 =>
                        /\ timers'[t].next_reminder_time = 1121
                        /\ threads'[t][k] = Asleep]_vars

\* C14 witness: the timer with interval 60 s and offset 0 was never paused,
\* was polled at 1000 and at 1061, and the second poll has fired and sleeps.
C14_Witness ==
    \E t \in Registered, k \in ThreadIds :
        /\ timers[t].interval_minutes = 1
        /\ timers[t].offset_seconds = 0
        /\ ncalls = 1
        /\ clock = 1061
        /\ last_call[t] = 1061
        /\ threads[t][k].pc = "sleep"
        /\ timers[t].next_reminder_time = 1121

\* The step writes next_reminder_time of timer t from thread k: on idle
\* suppression (line 107), first scheduling (line 115) or after the callback
\* (line 119).
WritesNext(t, k) ==
    \/ \E r \in IdleReadings :
          /\ worker_idle(t, k, r)
          /\ should_reset_due_to_idle(r, threads[t][k].interval_seconds)
    \/ worker_init(t, k)
    \/ worker_reset(t, k)

\* update_timer_interval(t, m) changes interval_minutes of timer t to m and
\* nothing else: not its next_reminder_time or flags, no thread.
UpdateIntervalFrame ==
    \A t \in Registered, m \in IntervalChoices :
        update_timer_interval(t, m) =>
            /\ timers' = [timers EXCEPT ![t].interval_minutes = m]
            /\ UNCHANGED <<threads, is_global_paused, clock>>

C16_TogglePauseFrame ==
    [][\A t \in Registered :
          toggle_timer_pause(t) =>
              /\ timers' = [timers EXCEPT ![t].is_paused = ~timers[t].is_paused]
              /\ toggled(timers'[t]) = timers[t]
              /\ UNCHANGED <<is_global_paused, threads, clock>>]_vars

\* C16 witness: during a global pause exactly one timer is not paused and
\* the others are, which pause_all followed by a per-type toggle produces.
C16_Witness ==
    /\ is_global_paused
    /\ ncalls = 2
    /\ \E t \in Registered :
          /\ ~timers[t].is_paused
          /\ \A u \in Registered \ {t} : timers[u].is_paused

\* C17: interval_minutes * 60 of every timer is a positive integer in every
\* state, for every configuration file and every interval change.
C17_IntervalPositive ==
    \A t \in Registered : timers[t].interval_minutes * 60 > 0

\* C18: when the callback of a hidden type runs, no toast is shown, nothing
\* is handed to TTS and last_shown_at keeps its value, and the polling thread
\* goes on to write next_reminder_time = now + interval_seconds, with
\* is_running as it was.
C18_HiddenFireIsSilent ==
    [][\A t \in Registered, k \in ThreadIds :
          config.reminders[t].hidden =>
              /\ worker_call(t, k) =>
                    /\ ~dispatched'[t].shown
                    /\ ~dispatched'[t].sound
                    /\ ~dispatched'[t].spoken
                    /\ last_shown_at'[t] = last_shown_at[t]
                    /\ threads'[t][k].pc = "reset"
                    /\ timers'[t] = timers[t]
              /\ worker_reset(t, k) =>
                    /\ timers'[t].next_reminder_time
                         = threads[t][k].now + threads[t][k].interval_seconds
                    /\ timers'[t].is_running = timers[t].is_running]_vars

\* C18 witness: a running timer of a hidden type has fired and rescheduled
\* one interval after the firing poll, and nothing was shown or recorded.
C18_Witness ==
    \E t \in Registered :
        /\ config.reminders[t].hidden
        /\ timers[t].is_running
        /\ timers[t].interval_minutes > 0
        /\ dispatched[t].kind = "fired"
        /\ ~dispatched[t].shown
        /\ last_shown_at[t] = NoTime
        /\ timers[t].next_reminder_time = last_call[t] + IntervalSeconds(t)

\* C19: when the callback of a type that is not hidden runs, the toast is
\* shown, its default sound is set exactly when the global and the type's
\* sound flag are both on, and the message is handed to TTS exactly when the
\* global and the type's TTS flag are both on.
C19_ScheduledGates ==
    [][\A t \in Registered, k \in ThreadIds :
          worker_call(t, k) /\ ~config.reminders[t].hidden =>
              /\ dispatched'[t].kind = "fired"
              /\ dispatched'[t].shown
              /\ dispatched'[t].sound
                    <=> (config.sound_enabled /\ config.reminders[t].sound_enabled)
              /\ dispatched'[t].spoken
                    <=> (config.tts_enabled /\ config.reminders[t].tts_enabled)]_vars

\* C19 witness: a scheduled fire was shown without sound and without speech
\* although the type's own sound and TTS flags are on.
C19_Witness ==
    \E t \in Registered :
        /\ dispatched[t] = show_notification("fired", FALSE, FALSE)
        /\ ~config.reminders[t].hidden
        /\ config.reminders[t].sound_enabled /\ ~config.sound_enabled
        /\ config.reminders[t].tts_enabled /\ ~config.tts_enabled

\* C20: a test notification is shown with the default sound exactly when
\* the global or the type's sound flag is on, and is handed to TTS exactly
\* when the global or the type's TTS flag is on.
C20_PreviewGates ==
    [][\A t \in Registered :
          test_notification(t) =>
              /\ dispatched'[t].kind = "test"
              /\ dispatched'[t].shown
              /\ dispatched'[t].sound
                    <=> (config.sound_enabled \/ config.reminders[t].sound_enabled)
              /\ dispatched'[t].spoken
                    <=> (config.tts_enabled \/ config.reminders[t].tts_enabled)]_vars

\* C20 witness: a test notification played the sound with the global sound
\* flag off and the type's sound flag on.
C20_Witness ==
    \E t \in Registered :
        /\ dispatched[t].kind = "test"
        /\ dispatched[t].sound
        /\ ~config.sound_enabled
        /\ config.reminders[t].sound_enabled

\* C21: a test notification of a type whose hidden flag is true shows no
\* toast and hands nothing to TTS.
C21_TestRespectsHidden ==
    [][\A t \in Registered :
          test_notification(t) /\ config.reminders[t].hidden =>
              ~dispatched'[t].shown /\ ~dispatched'[t].spoken]_vars

\* C22: once loaded, and after any setters and update() calls, each of the
\* four reminder types has a record with interval_minutes, sound_enabled,
\* tts_enabled and hidden; right after the load a key the file lacked holds
\* its default.
C22_CompleteRecords ==
    /\ DOMAIN config.reminders = ReminderTypes
    /\ \A t \in ReminderTypes : ReminderKeys \subseteq DOMAIN config.reminders[t]
    /\ (ncalls = 0 /\ startup.found.kind = "doc") =>
          \A t \in ReminderTypes, k \in ReminderKeys :
              startup.found.doc.reminders[t][k] = {} =>
                  config.reminders[t][k] = default_reminder_config(t)[k]

\* A legacy flat file without the blink interval was loaded, and a setter and
\* a partial update() for walking have run since.
C22_Witness ==
    /\ startup.found.kind = "doc"
    /\ startup.found.doc.format = "flat"
    /\ startup.found.doc.reminders["blink"].interval_minutes = {}
    /\ config.reminders["blink"].interval_minutes = DEFAULT_INTERVALS_MIN["blink"]
    /\ config.reminders["blink"].hidden
    /\ config.reminders["walking"].interval_minutes = 2
    /\ ~config.reminders["walking"].sound_enabled
    /\ ncalls >= 2

\* C23: saving the configuration, loading the saved file and saving again
\* gives the document of the first save, and the load returns every known
\* field with the saved value; a loaded file's known keys keep their values
\* whatever unknown keys stand next to them.
C23_RoundTrip ==
    LET saved == save_config(config, disk, "ok")
        loaded == load_config(saved, "ok")
    IN  /\ ~loaded.raised
        /\ loaded.disk = saved
        /\ save_config(loaded.config, loaded.disk, "ok") = saved
        /\ loaded.config.sound_enabled = config.sound_enabled
        /\ loaded.config.tts_enabled = config.tts_enabled
        /\ \A t \in ReminderTypes, k \in ReminderKeys :
              loaded.config.reminders[t][k] = config.reminders[t][k]
        /\ (ncalls = 0 /\ startup.found.kind = "doc") =>
              \A t \in ReminderTypes, k \in ReminderKeys :
                  startup.found.doc.reminders[t][k] # {} =>
                      startup.found.doc.reminders[t][k] = {config.reminders[t][k]}

\* A configuration loaded from a sectioned file with an unknown key, changed
\* by setters since, whose flags and interval are not the defaults.
C23_Witness ==
    /\ startup.found.kind = "doc"
    /\ startup.found.doc.reminders["blink"].extra # {}
    /\ "extra" \in DOMAIN config.reminders["blink"]
    /\ config.reminders["blink"].hidden
    /\ config.reminders["walking"].interval_minutes = 1
    /\ ~config.reminders["walking"].tts_enabled
    /\ config.sound_enabled
    /\ ncalls >= 2

C25_Defaults ==
    (/\ ncalls = 0
     /\ \/ startup.found.kind \in {"missing", "not_json"}
        \/ startup.found = OnDisk(EmptyFile)) =>
        /\ config.reminders["blink"].interval_minutes = 20
        /\ config.reminders["walking"].interval_minutes = 60
        /\ config.reminders["water"].interval_minutes = 30
        /\ config.reminders["pranayama"].interval_minutes = 120
        /\ ~config.sound_enabled
        /\ config.tts_enabled
        /\ \A t \in ReminderTypes :
              /\ config.reminders[t].sound_enabled
              /\ config.reminders[t].tts_enabled
              /\ ~config.reminders[t].hidden

\* The empty JSON object was loaded: the defaults are in memory and, the
\* normalised configuration differing from the file, were written back.
C25_Witness ==
    /\ ncalls = 0
    /\ startup.found = OnDisk(EmptyFile)
    /\ config = default_config
    /\ disk = OnDisk(document(default_config))

\* The file holds a document that loads as the configuration in memory,
\* without the load having to rewrite it.
Persisted ==
    /\ disk.kind = "doc"
    /\ LET loaded == load_config(disk, "ok") IN
          loaded.config = config /\ loaded.disk = disk

\* C26: every setter, and update(), leaves the new value in memory whatever
\* becomes of its write, and whenever the latest write succeeded the file
\* holds the configuration in memory.
C26_WriteThrough ==
    /\ [](last_save = "ok" => Persisted)
    /\ [][/\ \A t \in Types, m \in IntervalChoices :
              \/ get_interval_minutes(config', t) = m
              \/ \A o \in WriteOutcomes : ~config_set_interval_minutes(t, m, o)
          /\ \A t \in Types, key \in FlagKeys, b \in BOOLEAN :
              \/ config'.reminders[t][key] = b
              \/ \A o \in WriteOutcomes : ~config_set_flag(t, key, b, o)
          /\ \A key \in {"sound_enabled", "tts_enabled"}, b \in BOOLEAN :
              \/ config'[key] = b
              \/ \A o \in WriteOutcomes : ~config_set(key, b, o)
          /\ \A updates \in Updates :
              \/ /\ \A key \in DOMAIN updates.global :
                       config'[key] = updates.global[key]
                 /\ \A t \in DOMAIN updates.reminders :
                       \A key \in DOMAIN updates.reminders[t] :
                           config'.reminders[t][key] = updates.reminders[t][key]
              \/ \A o \in WriteOutcomes : ~config_update(updates, o)]_vars

\* The file could not be read at startup; setters have run since and the
\* file now holds the changed configuration.
C26_Witness ==
    /\ startup.found.kind = "unreadable"
    /\ ncalls >= 2
    /\ config.reminders["walking"].interval_minutes = 2
    /\ config.sound_enabled
    /\ last_save = "ok"
    /\ Persisted

\* The interval the file holds for type t, read back by a load.
PersistedInterval(t) ==
    IF disk.kind = "doc"
    THEN {get_interval_minutes(load_config(disk, "ok").config, t)}
    ELSE {}

\* The selection of m for type t has just been made.
Selected(t, m) == \E o \in WriteOutcomes : set_interval(t, m, o)

Speaking == {m \in ManagerIds : tts[m].pc = "run"}

\* C28: at most one request is being spoken at any time, the requests are
\* spoken in the order of their speak() calls, and a speak() call puts its
\* request on the queue whatever the worker is doing, without moving it.
C28_Serialised ==
    /\ [](Cardinality(Speaking) <= 1)
    /\ [](\A i, j \in DOMAIN spoken : i < j => spoken[i] < spoken[j])
    /\ [][\A m \in ManagerIds :
            tts_speak(m) =>
                /\ Len(tts'[m].queue) = Len(tts[m].queue) + 1
                /\ tts'[m].pc = tts[m].pc]_vars

\* After suppressed polls of a timer that is left running, next_reminder_time
\* is the last suppressed poll's now plus the interval_seconds it read (a
\* suppressed poll writes that, and nothing else writes while the flag is
\* set), and a poll gets to the callback exactly when its now has reached
\* next_reminder_time.
FireAfterSuppression ==
    \A t \in Registered, k \in ThreadIds :
        /\ \A r \in IdleReadings :
              worker_idle(t, k, r) /\ timers'[t].idle_suppressed =>
                  timers'[t].next_reminder_time
                      = threads[t][k].now + threads[t][k].interval_seconds
        /\ (/\ timers[t].idle_suppressed
            /\ timers'[t].next_reminder_time # timers[t].next_reminder_time) =>
                 timers'[t].idle_suppressed
        /\ worker_due(t, k) =>
              ((threads'[t][k].pc = "call")
                  <=> (threads[t][k].now >= timers[t].next_reminder_time))

\* C29 as stated: the first poll that finds the user no longer idle after
\* suppressed polls cannot fire (its now is before next_reminder_time), and
\* no fire comes before the last suppressed poll's now plus interval_seconds.
C29_NoFireOnReturn ==
    [][/\ FireAfterSuppression
       /\ \A t \in Registered, k \in ThreadIds, r \in IdleReadings :
             worker_idle(t, k, r) /\ Cleared(t) =>
                 threads[t][k].now < timers[t].next_reminder_time]_vars

\* C29 amended: no fire comes before the last suppressed poll's now plus
\* interval_seconds; the first poll that finds the user no longer idle fires
\* exactly when its now has reached that time.
C29_NoFireBeforeInterval == [][FireAfterSuppression]_vars

\* C29 witness: a two-minute timer was suppressed at its first poll (time 0,
\* next_reminder_time 120 with no offset), the poll one tick later found the
\* user back and did not fire, and the poll after that is at the callback.
C29_Witness ==
    \E t \in Registered, k \in ThreadIds :
        /\ threads[t][k].pc = "call"
        /\ threads[t][k].interval_seconds = 120
        /\ threads[t][k].now = 2 * TickSeconds
        /\ timers[t].next_reminder_time = 120
        /\ ~timers[t].idle_suppressed
        /\ last_call[t] = NoTime

\* C30: only a poll that finds next_reminder_time unset goes to the first
\* scheduling, which writes now + interval_seconds + offset_seconds, a time
\* that poll's now has not reached, so the poll does not fire;
\* next_reminder_time is never unset again, and every later write by a poll
\* is now + interval_seconds, without the offset.
C30_OffsetOnlyAtFirstScheduling ==
    [][\A t \in Registered, k \in ThreadIds :
          /\ worker_sched(t, k) =>
                ((threads'[t][k].pc = "init")
                    <=> (timers[t].next_reminder_time = NoTime))
          /\ worker_init(t, k) =>
                /\ timers'[t].next_reminder_time
                     = threads[t][k].now + threads[t][k].interval_seconds
                         + timers[t].offset_seconds
                /\ threads[t][k].now < timers'[t].next_reminder_time
                /\ threads'[t][k].pc = "due"
          /\ timers[t].next_reminder_time # NoTime =>
                timers'[t].next_reminder_time # NoTime
          /\ (worker_reset(t, k)
                \/ \E r \in IdleReadings :
                      worker_idle(t, k, r) /\ timers'[t].idle_suppressed) =>
                timers'[t].next_reminder_time
                    = threads[t][k].now + threads[t][k].interval_seconds]_vars

\* The clock readings explored are the multiples 0..LastReading of TickSeconds.
LastReading == MaxTime \div TickSeconds

\* The latest fire of timer t was one whose toast or TTS call failed.
FailedFire(t) ==
    /\ dispatched[t].kind = "fired"
    /\ ~config.reminders[t].hidden
    /\ \/ ~dispatched[t].shown
       \/ scheduled_tts(config, t) /\ ~dispatched[t].spoken

\* The latest fire of timer t was at reading n, one of its calls failed, and
\* the clock still reaches the time it was rescheduled to.
FailedFireAt(t, n) ==
    /\ t \in Registered
    /\ last_call[t] = n * TickSeconds
    /\ FailedFire(t)
    /\ n * TickSeconds + IntervalSeconds(t) <= LastReading * TickSeconds

\* Timer t has fired after reading n.
FiredAfter(t, n) == t \in Registered /\ last_call[t] > n * TickSeconds

\* C31: a fire whose toast or TTS call fails leaves the callback normally:
\* the thread goes on to line 119, which writes now + interval_seconds and
\* sleeps; a running timer never loses its polling thread; and while the
\* clock still reaches the new next_reminder_time the timer fires again.
C31_FailureKeepsSchedule ==
    /\ [][\A t \in Registered, k \in ThreadIds :
             /\ (\E toast_fails \in BOOLEAN, tts_fails \in BOOLEAN :
                    worker_call_failing(t, k, toast_fails, tts_fails)) =>
                   /\ threads'[t][k].pc = "reset"
                   /\ timers' = timers
             /\ worker_reset(t, k) =>
                   /\ timers'[t].next_reminder_time
                        = last_call[t] + threads[t][k].interval_seconds
                   /\ threads'[t][k].pc = "sleep"]_vars
    /\ [](\A t \in Registered :
             timers[t].is_running => \E k \in ThreadIds : threads[t][k].pc # "none")
    /\ \A t \in Types, n \in 0..LastReading :
          FailedFireAt(t, n) ~> FiredAfter(t, n)

\* C31 witness: a fire whose toast failed and whose TTS call failed has been
\* rescheduled an interval after its poll and the thread sleeps.
C31_Witness ==
    \E t \in Registered :
        /\ FailedFire(t)
        /\ ~dispatched[t].shown
        /\ scheduled_tts(config, t) /\ ~dispatched[t].spoken
        /\ Settled(t)
        /\ timers[t].is_running
        /\ \E k \in ThreadIds : threads[t][k].pc = "sleep"
        /\ timers[t].next_reminder_time = last_call[t] + IntervalSeconds(t)
        /\ last_call[t] + IntervalSeconds(t) <= MaxTime

\* The polling threads of timer t that have not returned.
AliveLoops(t) == {k \in ThreadIds : threads[t][k].pc # "none"}

\* C32: at every moment at most one polling loop of a timer is alive.
C32_AtMostOneLoop ==
    \A t \in Registered : Cardinality(AliveLoops(t)) <= 1

\* C33: the callback of a timer is not invoked before the time its latest
\* effective snooze asked for, whatever the polling loop was doing when the
\* snooze was made.
C33_SnoozeNeverLost ==
    [][\A t \in Registered, k \in ThreadIds :
          worker_call(t, k) /\ snooze_until[t] # NoTime =>
              clock >= snooze_until[t]]_vars

\* The fields of timer t that the polling loop schedules with.
Deadline(t) ==
    <<timers[t].next_reminder_time, timers[t].idle_suppressed>>

\* A step of the caller that pauses or resumes timers.
PauseOrResume ==
    \/ pause_all
    \/ resume_all
    \/ \E t \in Registered : pause_timer(t) \/ resume_timer(t) \/ toggle_timer_pause(t)

DueAt(t, n) ==
    /\ t \in Registered
    /\ timers[t].is_running
    /\ timers[t].next_reminder_time # NoTime
    /\ (n - 1) * TickSeconds < timers[t].next_reminder_time
    /\ timers[t].next_reminder_time <= n * TickSeconds

\* The callback of timer t has been invoked at reading n or later.
FiredSince(t, n) == t \in Registered /\ last_call[t] >= n * TickSeconds

\* C35: a timer that is started and then neither paused, stopped, snoozed
\* nor idle-suppressed fires again and again: every next_reminder_time that
\* the clock reaches is followed by an invocation of the callback.
C35_EveryDeadlineFires ==
    \A t \in Types, n \in 0..LastReading : DueAt(t, n) ~> FiredSince(t, n)

\* C35 witness: a timer left running has fired more than an interval after
\* its first possible fire, and is scheduled an interval after that fire.
C35_Witness ==
    \E t \in Registered :
        /\ timers[t].is_running
        /\ Settled(t)
        /\ last_call[t] = 3 * TickSeconds
        /\ last_call[t] >= 2 * IntervalSeconds(t) + timers[t].offset_seconds
        /\ timers[t].next_reminder_time = last_call[t] + IntervalSeconds(t)

\* C36: when start_all returns the global pause flag is false and every
\* registered timer is running and not paused, whatever went before.
C36_StartAllStartsEverything ==
    [][start_all =>
          /\ ~is_global_paused'
          /\ \A t \in Registered :
                timers'[t].is_running /\ ~timers'[t].is_paused]_vars

\* C37: the polling loop always schedules and compares with the interval the
\* timer has at that moment (the one the latest update_interval set): each
\* write of next_reminder_time, on fire, on idle suppression or on first
\* scheduling, adds interval_minutes * 60, and idle time is compared with
\* interval_minutes * 60.
C37_LoopUsesLatestInterval ==
    [][\A t \in Registered, k \in ThreadIds :
          /\ worker_reset(t, k) =>
                timers'[t].next_reminder_time
                    = threads[t][k].now + IntervalSeconds(t)
          /\ worker_init(t, k) =>
                timers'[t].next_reminder_time
                    = threads[t][k].now + IntervalSeconds(t)
                        + timers[t].offset_seconds
          /\ \A r \in IdleReadings :
                worker_idle(t, k, r) =>
                    /\ timers'[t].idle_suppressed
                          <=> should_reset_due_to_idle(r, IntervalSeconds(t))
                    /\ timers'[t].idle_suppressed =>
                          timers'[t].next_reminder_time
                              = threads[t][k].now + IntervalSeconds(t)]_vars

\* Request r is on the queue of a manager whose stop() has not been called:
\* its speak() call has returned and no worker has taken it.
QueuedBeforeStop(r) ==
    \E m \in ManagerIds :
        /\ ~tts[m].stop_event
        /\ \E i \in DOMAIN tts[m].queue : tts[m].queue[i] = r

\* The speech of request r has begun.
Spoken(r) == \E i \in DOMAIN spoken : spoken[i] = r

\* C38: every request that speak() has put on a manager's queue before
\* stop() was called is eventually spoken, whether the manager is one its
\* caller holds or the temporary one of speak_once, and however soon stop()
\* follows.
C38_EveryRequestSpoken ==
    \A r \in 1..MaxRequests : QueuedBeforeStop(r) ~> Spoken(r)

\* C39: the configuration normalised from a legacy flat file has, for every
\* reminder type, blink included, the interval the legacy file stored for it.
C39_LegacyIntervalsPreserved ==
    \A t \in ReminderTypes :
        (startup.found.kind = "doc" /\ startup.found.doc.format = "flat") =>
            legacy_interval(startup.found.doc, t)
                = {get_interval_minutes(normalize_config(startup.found.doc), t)}

====
